---------------------------- MODULE Spec2Model ----------------------------
(***************************************************************************)
(* A model of the downpour BitTorrent client: main (src/src/main.rs), the  *)
(* scheduler loop Downloader::download and the peer sessions peer_thread   *)
(* (src/src/downloader.rs).                                                *)
(*                                                                         *)
(* Byte contents are symbolic.  A run [len, src] stands for len bytes; src *)
(* >= 0 says they are the torrent's genuine payload bytes starting at      *)
(* payload offset src, Zero the zero fill of preallocation, Junk bytes     *)
(* that are not the payload's.  A SHA-1 comparison of a piece is modelled  *)
(* as the comparison of the piece's bytes with the genuine ones.           *)
(***************************************************************************)
EXTENDS Integers, Sequences, FiniteSets, TLC

VARIABLES
    metainfo,         \* [piece_length, files]: the loaded Metainfo
    overflow_checks,  \* TRUE: a build that panics on integer overflow (debug)
    peers,            \* PeerList: the addresses the trackers yielded
    active_peers,     \* ClientConfig.active_peers
    sched,            \* main / Downloader::download: init, running, exit_ok, exit_err, panic
    pc,               \* per peer: where its peer_thread task is, or how it ended
    futures,          \* peer_thread_futures: join handles not yet yielded
    peer_states,      \* HashMap<SocketAddr, PeerState>
    pieces_state,     \* Vec<PieceState>
    rx,               \* the session -> scheduler channel (tx, rx)
    outbox,           \* per peer: the scheduler -> session channel (thread_tx, thread_rx)
    sent,             \* per peer: what the session has written to its TcpStream
    disk,             \* per file: the bytes on disk, as runs
    outstanding,      \* history: requests issued and not yet credited by an accepted Piece
    nframes,          \* history: how many frames the sessions have read
    stream,           \* the frames a remote peer sends, whose bytes the session reads
    nread,            \* how many bytes of them the session has read
    data_buf,         \* the session's data_buf: bytes read and not yet parsed
    eof,              \* per peer: the remote has closed the connection
    at,               \* per peer: where in its loop the session is: top, select
    buffered,         \* per peer: whole frames in its data_buf, not yet parsed
    saw_closed,       \* per peer: the session has seen a channel of the scheduler closed
    torrent_paths,    \* Info::Directory: the path (its segments) of each file
    next_file,        \* preallocation: the index of the next file to create
    prealloc,         \* preallocation: running, done, err
    created,          \* the places in the file system where a file was created
    raw,              \* the bytes of the metainfo file
    info_value,       \* the bytes of the value of the root dictionary's info key
    info_hash,        \* Metainfo.info_hash as from_bytes computes it
    reply,            \* the remote's handshake and how much of it the first read returns
    script            \* per peer: how many frames its remote has sent

vars == <<metainfo, overflow_checks, peers, active_peers, sched, pc, futures,
          peer_states, pieces_state, rx, outbox, sent, disk, outstanding, nframes,
          stream, nread, data_buf, eof, at, buffered, saw_closed,
          torrent_paths, next_file, prealloc, created, raw, info_value, info_hash,
          reply, script>>

framer_vars == <<stream, nread, data_buf>>

lifecycle_vars == <<eof, at, buffered, saw_closed>>

path_vars == <<torrent_paths, next_file, prealloc, created>>

bencode_vars == <<raw, info_value, info_hash>>

remote_vars == <<reply, script>>

aux_vars == <<lifecycle_vars, path_vars, bencode_vars, remote_vars>>

BLOCK_LENGTH == 16384

ChannelCapacity == 32

DefaultActivePeers == 8

\* Bounds of the model.
MaxPeers == 2

MaxQueued == 1

MaxFrames == 4

None == [kind |-> "None"]

\* Something written to a peer
Out(kind) == [kind |-> kind, index |-> 0, begin |-> 0, length |-> 0]

Zero == 0 - 1

Junk == 0 - 2

Min(a, b) == IF a < b THEN a ELSE b

Max(a, b) == IF a > b THEN a ELSE b

AllPeers == 1..MaxPeers

----------------------------------------------------------------------------
(* Metainfo geometry *)

RECURSIVE SumSeq(_)
SumSeq(s) == IF s = <<>> THEN 0 ELSE Head(s) + SumSeq(Tail(s))

\* metainfo.total_length: the sum of the file lengths
TotalLength(mi) == SumSeq(mi.files)

\* metainfo.pieces.len(): one SHA-1 per piece of the payload
NumPieces(mi) == (TotalLength(mi) + mi.piece_length - 1) \div mi.piece_length

\* The torrents the model loads: a piece of two blocks and a last piece of
\* five bytes, in one file; the same payload over three files, the middle one
\* tiny; a payload that is an exact multiple of the piece length.
Torrents ==
    { [piece_length |-> 2 * BLOCK_LENGTH, files |-> <<2 * BLOCK_LENGTH + 5>>],
      [piece_length |-> 2 * BLOCK_LENGTH, files |-> <<BLOCK_LENGTH - 4, 2, BLOCK_LENGTH + 7>>],
      [piece_length |-> BLOCK_LENGTH, files |-> <<2 * BLOCK_LENGTH>>] }

\* FileSpan.start: the files partition the payload in order
FileStart(mi, f) == SumSeq(SubSeq(mi.files, 1, f - 1))

FileEnd(mi, f) == FileStart(mi, f) + mi.files[f]

\* num_blocks when piece_len - 1 wrapped around in a build without overflow
\* checks: (2^64 - 1) / 2^14 + 1 = 2^50 in the program; any value above every
\* block index the model reaches compares the same.
WrappedNumBlocks == 2^30

\* let piece_len = if piece_index == pieces.len() - 1 { total_length % piece_length } else { piece_length }
piece_len(mi, piece_index) ==
    IF piece_index = NumPieces(mi) - 1
    THEN TotalLength(mi) % mi.piece_length
    ELSE mi.piece_length

\* piece_len - 1 on usize overflows for piece_len = 0: a panic in a build with
\* overflow checks
num_blocks_panics(pl, checks) == pl = 0 /\ checks

\* A num_blocks that does not round: piece_len / BLOCK_LENGTH + 1
num_blocks_unrounded(pl) == pl \div BLOCK_LENGTH + 1

\* let num_blocks = (piece_len - 1) / BLOCK_LENGTH + 1, on usize
num_blocks(pl) ==
    IF pl = 0 THEN WrappedNumBlocks ELSE (pl - 1) \div BLOCK_LENGTH + 1

\* let block_length = ... of request_next_block
block_length(pl, nb, block_index) ==
    IF pl % BLOCK_LENGTH = 0
    THEN BLOCK_LENGTH
    ELSE IF block_index + 1 = nb THEN pl % BLOCK_LENGTH ELSE BLOCK_LENGTH

----------------------------------------------------------------------------
(* The files on disk *)

\* The runs a file may hold
Runs == [len : Nat, src : Int]

RunsLen(runs) ==
    LET Total[r \in Seq(Runs)] == IF r = <<>> THEN 0 ELSE Head(r).len + Total[Tail(r)]
    IN Total[runs]

RunStart(runs, j) == RunsLen(SubSeq(runs, 1, j - 1))

\* What byte k of a file is
OriginAt(runs, k) ==
    LET j == CHOOSE i \in 1..Len(runs) :
                 RunStart(runs, i) <= k /\ k < RunStart(runs, i) + runs[i].len
    IN IF runs[j].src >= 0 THEN runs[j].src + (k - RunStart(runs, j)) ELSE runs[j].src

SortSet(S) ==
    LET Sorted[T \in SUBSET S] ==
            IF T = {} THEN <<>>
            ELSE LET m == CHOOSE x \in T : \A y \in T : x <= y
                 IN <<m>> \o Sorted[T \ {m}]
    IN Sorted[S]

Adjacent(r1, r2) ==
    \/ r1.src < 0 /\ r2.src = r1.src
    \/ r1.src >= 0 /\ r2.src = r1.src + r1.len

MergeRuns(runs) ==
    LET Merged[r \in Seq(Runs)] ==
            IF Len(r) < 2 THEN r
            ELSE IF Adjacent(r[1], r[2])
                 THEN Merged[<<[len |-> r[1].len + r[2].len, src |-> r[1].src]>>
                             \o SubSeq(r, 3, Len(r))]
                 ELSE <<r[1]>> \o Merged[Tail(r)]
    IN Merged[runs]

\* Bytes [from, from + n) of a block
BlockSlice(blk, from, n) ==
    [len |-> n, src |-> IF blk.src >= 0 THEN blk.src + from ELSE blk.src]

\* handle.seek(SeekFrom::Start(off)); handle.write_all(blk): the file's bytes
\* afterwards.  A write past the end makes the file longer.
WriteFile(runs, off, blk) ==
    IF blk.len = 0 THEN runs
    ELSE LET size == RunsLen(runs)
             newSize == Max(size, off + blk.len)
             At(k) == IF off <= k /\ k < off + blk.len
                      THEN (IF blk.src >= 0 THEN blk.src + (k - off) ELSE blk.src)
                      ELSE OriginAt(runs, k)
             cuts == {c \in {0, off, off + blk.len} \cup
                             {RunStart(runs, j) : j \in 1..Len(runs)} : c < newSize}
             Between[s \in Seq(Nat)] ==
                 MergeRuns([j \in 1..(Len(s) - 1) |->
                                [len |-> s[j + 1] - s[j], src |-> At(s[j])]])
         IN Between[SortSet(cuts) \o <<newSize>>]

\* preallocate_file: length zero bytes
preallocate_file(length) ==
    IF length = 0 THEN <<>> ELSE <<[len |-> length, src |-> Zero]>>

FileSize(f) == RunsLen(disk[f])

\* The bytes persisted for piece i are the payload's: what comparing their
\* SHA-1 with pieces[i] decides
PieceIntact(mi, d, i) ==
    \A f \in 1..Len(mi.files) : \A j \in 1..Len(d[f]) :
        LET lo == Max(FileStart(mi, f) + RunStart(d[f], j), i * mi.piece_length)
            hi == Min(Min(FileStart(mi, f) + RunStart(d[f], j) + d[f][j].len, FileEnd(mi, f)),
                      Min((i + 1) * mi.piece_length, TotalLength(mi)))
        IN lo < hi => d[f][j].src = FileStart(mi, f) + RunStart(d[f], j)

----------------------------------------------------------------------------
(* The wire codec *)

NoBlock == [len |-> 0, src |-> Junk]

\* A frame on the wire: the length prefix, the id byte and the body's fields.
\* The body holds exactly len - 1 bytes.
Frame(len, id) ==
    [len |-> len, id |-> id, index |-> 0, begin |-> 0, length |-> 0,
     bits |-> {}, block |-> NoBlock]

KeepAliveFrame == Frame(0, 0 - 1)

HaveFrame(i) == [Frame(5, 4) EXCEPT !.index = i]

BitfieldFrame(nbytes, bits) == [Frame(1 + nbytes, 5) EXCEPT !.bits = bits]

RequestFrame(id, i, b, l) == [Frame(13, id) EXCEPT !.index = i, !.begin = b, !.length = l]

PieceFrame(i, b, blk) ==
    [Frame(9 + blk.len, 7) EXCEPT !.index = i, !.begin = b, !.block = blk]

\* A Piece frame too short to hold index and begin
ShortPieceFrame == Frame(5, 7)

Packet(kind, f) ==
    [kind |-> kind, index |-> f.index, begin |-> f.begin, length |-> f.length,
     bits |-> f.bits, block |-> f.block]

\* parse_packet on the 4 + len bytes of one frame.  PacketHeader::read needs
\* five bytes; each packet struct reads its fields after the header and fails
\* where the frame ends first; PiecePacket's count is header.len - 9 on u32.
parse_packet(f, checks) ==
    IF 4 + f.len < 5 THEN [res |-> "err", packet |-> None]
    ELSE IF f.len = 0 THEN [res |-> "ok", packet |-> Packet("KeepAlive", f)]
    ELSE CASE f.id = 0 -> [res |-> "ok", packet |-> Packet("Choke", f)]
           [] f.id = 1 -> [res |-> "ok", packet |-> Packet("Unchoke", f)]
           [] f.id = 2 -> [res |-> "ok", packet |-> Packet("Interested", f)]
           [] f.id = 3 -> [res |-> "ok", packet |-> Packet("NotInterested", f)]
           [] f.id = 4 -> IF 4 + f.len < 9 THEN [res |-> "err", packet |-> None]
                          ELSE [res |-> "ok", packet |-> Packet("Have", f)]
           [] f.id = 5 -> [res |-> "ok", packet |-> Packet("Bitfield", f)]
           [] f.id = 6 -> IF 4 + f.len < 17 THEN [res |-> "err", packet |-> None]
                          ELSE [res |-> "ok", packet |-> Packet("Request", f)]
           [] f.id = 7 -> IF f.len < 9
                          THEN [res |-> IF checks THEN "panic" ELSE "err", packet |-> None]
                          ELSE [res |-> "ok", packet |-> Packet("Piece", f)]
           [] f.id = 8 -> IF 4 + f.len < 17 THEN [res |-> "err", packet |-> None]
                          ELSE [res |-> "ok", packet |-> Packet("Cancel", f)]
           [] OTHER -> [res |-> "err", packet |-> None]

\* The length of piece i of the payload, and of the block at begin in it
TruePieceLen(mi, i) == Min(mi.piece_length, TotalLength(mi) - i * mi.piece_length)

TrueBlockLen(mi, i, b) == Min(BLOCK_LENGTH, TruePieceLen(mi, i) - b)

Begins(mi, i) == {k * BLOCK_LENGTH : k \in 0..((TruePieceLen(mi, i) - 1) \div BLOCK_LENGTH)}

\* The blocks a peer may send for (i, b): the genuine bytes, or BLOCK_LENGTH
\* other bytes (more than the genuine block has where that one is short)
PeerBlocks(mi, i, b) ==
    { [len |-> TrueBlockLen(mi, i, b), src |-> i * mi.piece_length + b],
      [len |-> BLOCK_LENGTH, src |-> Junk] }

\* The Bitfield bodies a peer may send: every piece, or piece 1 alone
Bitfields(mi) == { 0..(NumPieces(mi) - 1), {1} }

\* ceil(pieces.len() / 8): the bytes of a bit field of the right length
BitfieldBytes(mi) == (NumPieces(mi) + 7) \div 8

\* Bitfield frames that are not valid: of the right length with a surplus bit
\* set, and one byte too long with a bit set in the byte that is too many
BadBitfieldFrames(mi) ==
    {BitfieldFrame(BitfieldBytes(mi), (0..(NumPieces(mi) - 1)) \cup {8 * BitfieldBytes(mi) - 1}),
     BitfieldFrame(BitfieldBytes(mi) + 1, {1, 8 * BitfieldBytes(mi)})}

\* The frames a remote peer may send
Frames(mi) ==
    {KeepAliveFrame, ShortPieceFrame, Frame(1, 9), HaveFrame(0),
     RequestFrame(6, 0, 0, BLOCK_LENGTH), RequestFrame(8, 0, 0, BLOCK_LENGTH)}
    \cup {Frame(1, id) : id \in 0..3}
    \cup {BitfieldFrame(BitfieldBytes(mi), bits) : bits \in Bitfields(mi)}
    \cup UNION { {PieceFrame(i, b, blk) : blk \in PeerBlocks(mi, i, b)} :
                 <<i, b>> \in {ib \in (0..(NumPieces(mi) - 1)) \X {0, BLOCK_LENGTH} :
                                  ib[2] \in Begins(mi, ib[1])} }
    \cup {PieceFrame(NumPieces(mi), 0, [len |-> 1, src |-> Junk])}

----------------------------------------------------------------------------
(* The framer, on bytes *)

\* u32 big-endian
Be32(n) == <<(n \div 16777216) % 256, (n \div 65536) % 256, (n \div 256) % 256, n % 256>>

\* u32::from_be_bytes
FromBe32(b) == ((b[1] * 256 + b[2]) * 256 + b[3]) * 256 + b[4]

\* The bytes of a frame without a payload block or bit field on the wire:
\* the prefix, then len bytes (the id, the u32 fields)
WireBytes(f) ==
    Be32(f.len) \o SubSeq(<<f.id>> \o Be32(f.index) \o Be32(f.begin) \o Be32(f.length), 1, f.len)

RECURSIVE StreamBytes(_)
StreamBytes(fs) == IF fs = <<>> THEN <<>> ELSE WireBytes(Head(fs)) \o StreamBytes(Tail(fs))

\* What the binread structs can read of packet_buf: len, the id where there
\* is a fifth byte, the u32 fields where their bytes are there
FrameOf(packet_buf) ==
    LET U32At(k) == IF Len(packet_buf) >= k + 3 THEN FromBe32(SubSeq(packet_buf, k, k + 3)) ELSE 0
    IN [Frame(FromBe32(packet_buf), IF Len(packet_buf) >= 5 THEN packet_buf[5] ELSE 0 - 1)
          EXCEPT !.index = U32At(6), !.begin = U32At(10), !.length = U32At(14)]

\* read_packets: while data_buf holds a whole frame, drain it and parse it;
\* a parse error returns before any packet of this call is handed back
RECURSIVE read_packets(_, _, _)
read_packets(buf, packets, checks) ==
    IF Len(buf) >= 4
    THEN LET packet_len == FromBe32(buf) + 4
         IN IF Len(buf) >= packet_len
            THEN LET r == parse_packet(FrameOf(SubSeq(buf, 1, packet_len)), checks)
                     rest == SubSeq(buf, packet_len + 1, Len(buf))
                 IN IF r.res /= "ok"
                    THEN [res |-> r.res, packets |-> <<>>, data_buf |-> rest]
                    ELSE read_packets(rest, Append(packets, r.packet), checks)
            ELSE [res |-> "ok", packets |-> packets, data_buf |-> buf]
    ELSE [res |-> "ok", packets |-> packets, data_buf |-> buf]

----------------------------------------------------------------------------
(* The scheduler's plan *)

Unstarted == [tag |-> "Unstarted", block_index |-> 0]

Downloading(b) == [tag |-> "Downloading", block_index |-> b]

\* A flag_next_piece that also hands out a piece that is being downloaded
EligibleOrDownloading(st) == st.tag \in {"Unstarted", "Stalled", "Downloading"}

\* matches!(pieces_state[piece_index], Unstarted | Stalled { .. })
Eligible(st) == st.tag \in {"Unstarted", "Stalled"}

\* flag_next_piece: the first piece the peer has that is unstarted or stalled
\* becomes Downloading
flag_next_piece(mi, peer_state, ps) ==
    LET cand == {i \in 0..(NumPieces(mi) - 1) : i \in peer_state.bitfield /\ Eligible(ps[i])}
    IN IF cand = {} THEN [found |-> FALSE, index |-> 0, ps |-> ps]
       ELSE LET i == CHOOSE x \in cand : \A y \in cand : x <= y
                b == IF ps[i].tag = "Stalled" THEN ps[i].block_index ELSE 0
            IN [found |-> TRUE, index |-> i, ps |-> [ps EXCEPT ![i] = Downloading(b)]]

\* begin: block_index as u32 * BLOCK_LENGTH
RequestBegin(block_index) == block_index * BLOCK_LENGTH

\* request_next_block.  alive: the session still holds the outbox's receiver;
\* room: the outbox has room (the send waits otherwise).
request_next_block(piece_index, mi, checks, alive, room, ps) ==
    IF ps[piece_index].tag /= "Downloading" THEN [res |-> "err", ps |-> ps, msg |-> None]
    ELSE LET b == ps[piece_index].block_index
             pl == piece_len(mi, piece_index)
             nb == num_blocks(pl)
         IN IF num_blocks_panics(pl, checks) THEN [res |-> "panic", ps |-> ps, msg |-> None]
            ELSE IF ~alive THEN [res |-> "err", ps |-> ps, msg |-> None]
            ELSE IF ~room THEN [res |-> "blocked", ps |-> ps, msg |-> None]
            ELSE [res |-> "ok",
                  ps |-> [ps EXCEPT ![piece_index] = Downloading(b + 1)],
                  msg |-> [Out("RequestBlock") EXCEPT !.index = piece_index,
                                                      !.begin = RequestBegin(b),
                                                      !.length = block_length(pl, nb, b)]]

\* pick-and-request: flag_next_piece, then request_next_block for that piece;
\* an error where the peer has no piece to give
pick_and_request(mi, checks, alive, room, peer_state, ps) ==
    LET fl == flag_next_piece(mi, peer_state, ps)
    IN IF fl.found
       THEN request_next_block(fl.index, mi, checks, alive, room, fl.ps)
       ELSE [res |-> "err", ps |-> ps, msg |-> None]

\* let block_torrent_offset = piece_index * piece_length + block_index * BLOCK_LENGTH
block_torrent_offset(mi, piece_index, block_index) ==
    piece_index * mi.piece_length + block_index * BLOCK_LENGTH

\* file_handles.iter().position(|f| f.start + f.length > offset); 0 for None
file_index(mi, offset) ==
    LET fs == {f \in 1..Len(mi.files) : FileEnd(mi, f) > offset}
    IN IF fs = {} \/ offset < 0 THEN 0 ELSE CHOOSE f \in fs : \A g \in fs : f <= g

\* let write_length = min(f.start + f.length - block_torrent_offset, block.len())
write_length(mi, f, offset, blk) == Min(FileEnd(mi, f) - offset, blk.len)

\* The block write of the Piece branch: into the file holding the offset,
\* and what is left of the block at the start of the next file
write_block(mi, d, offset, blk) ==
    LET f == file_index(mi, offset)
        wl == write_length(mi, f, offset, blk)
        d1 == [d EXCEPT ![f] = WriteFile(@, offset - FileStart(mi, f), BlockSlice(blk, 0, wl))]
    IN IF wl < blk.len /\ f + 1 <= Len(mi.files)
       THEN [d1 EXCEPT ![f + 1] = WriteFile(@, 0, BlockSlice(blk, wl, blk.len - wl))]
       ELSE d1

\* The Piece branch of the scheduler loop.  res: dropped (the piece is not
\* being downloaded), ok, blocked, err, panic.  credited: the block index the
\* block was taken for; offset: block_torrent_offset where the block was
\* written (both -1 where the branch did not get that far).
on_piece(mi, checks, alive, room, peer_state, ps, d, pk) ==
    LET drop == [res |-> "dropped", ps |-> ps, disk |-> d, msg |-> None, credited |-> 0 - 1,
                 offset |-> 0 - 1]
    IN IF pk.index >= NumPieces(mi) THEN [drop EXCEPT !.res = "panic"]
       ELSE IF ps[pk.index].tag /= "Downloading" THEN drop
       ELSE IF ps[pk.index].block_index = 0 /\ checks THEN [drop EXCEPT !.res = "panic"]
       ELSE LET bi == ps[pk.index].block_index - 1
                offset == block_torrent_offset(mi, pk.index, bi)
            IN IF file_index(mi, offset) = 0 THEN [drop EXCEPT !.res = "err"]
               ELSE LET d2 == write_block(mi, d, offset, pk.block)
                        nb == num_blocks(piece_len(mi, pk.index))
                    IN IF num_blocks_panics(piece_len(mi, pk.index), checks)
                       THEN [drop EXCEPT !.res = "panic", !.disk = d2, !.offset = offset]
                       ELSE LET r == IF bi + 1 >= nb
                                     THEN pick_and_request(mi, checks, alive, room, peer_state, ps)
                                     ELSE request_next_block(pk.index, mi, checks, alive, room, ps)
                            IN [res |-> r.res, ps |-> r.ps, disk |-> d2, msg |-> r.msg,
                                credited |-> bi, offset |-> offset]

----------------------------------------------------------------------------
(* The program *)

\* The session task of p runs: it holds manager_rx, the receiver of p's outbox
Alive(p) == pc[p] \in {"connect", "handshake", "loop"}

Running == sched = "running"

\* The remote's handshake and how many of its 68 bytes the one try_read
\* returns; the rest of the buffer is zero.
RepliesOf(lens) ==
    [pstrlen : {19, 18}, pstr : {"BitTorrent protocol", "HelloWorld!Protocol"},
     info_hash : {"ours", "other"}, peer_id_utf8 : BOOLEAN, buf_len : lens]

HandshakeReplies == RepliesOf({0, 20, 50, 68})

\* Every session is at the select! of its loop with nothing buffered, its
\* connection open
LifecycleIdle ==
    /\ eof = [p \in AllPeers |-> FALSE]
    /\ at = [p \in AllPeers |-> "select"]
    /\ buffered = [p \in AllPeers |-> 0]
    /\ saw_closed = [p \in AllPeers |-> FALSE]

\* No directory torrent is being preallocated
PathIdle ==
    /\ torrent_paths = <<>>
    /\ next_file = 1
    /\ prealloc = "done"
    /\ created = {}

\* sha1 of a byte string, kept as the bytes it hashes
Sha1(bytes) == <<"sha1", bytes>>

\* No metainfo file is being read
BencodeIdle ==
    /\ raw = <<>>
    /\ info_value = <<>>
    /\ info_hash = [res |-> "none", hash |-> Sha1(<<>>)]

\* No handshake and no remote is followed
RemoteIdle ==
    /\ reply = [pstrlen |-> 19, pstr |-> "BitTorrent protocol", info_hash |-> "ours",
                peer_id_utf8 |-> TRUE, buf_len |-> 68]
    /\ script = [p \in AllPeers |-> 0]

AuxInit == LifecycleIdle /\ PathIdle /\ BencodeIdle /\ RemoteIdle

Init ==
    /\ metainfo \in Torrents
    /\ overflow_checks \in BOOLEAN
    /\ peers \in {{}, AllPeers}
    /\ active_peers \in {0, DefaultActivePeers}
    /\ sched = "init"
    /\ pc = [p \in AllPeers |-> "idle"]
    /\ futures = {}
    /\ peer_states = <<>>
    /\ pieces_state = <<>>
    /\ rx = <<>>
    /\ outbox = [p \in AllPeers |-> <<>>]
    /\ sent = [p \in AllPeers |-> <<>>]
    /\ disk = <<>>
    /\ outstanding = {}
    /\ nframes = 0
    /\ stream = <<>>
    /\ nread = 0
    /\ data_buf = <<>>
    /\ AuxInit

\* main with an empty PeerList: "Unable to source any peers", return Ok(())
MainNoPeers ==
    /\ sched = "init"
    /\ peers = {}
    /\ sched' = "exit_ok"
    /\ UNCHANGED <<framer_vars, aux_vars, metainfo, overflow_checks, peers, active_peers, pc, futures, peer_states,
                   pieces_state, rx, outbox, sent, disk, outstanding, nframes>>

\* Downloader::download up to its loop: preallocate the files, choose the
\* starting peers, spawn their sessions
StartDownload ==
    /\ sched = "init"
    /\ peers /= {}
    /\ \E S \in SUBSET peers :
          /\ Cardinality(S) = Min(active_peers, Cardinality(peers))
          /\ futures' = S
          /\ pc' = [p \in AllPeers |-> IF p \in S THEN "connect" ELSE "idle"]
          /\ peer_states' = [p \in S |-> [choking_us |-> TRUE, interested_in_us |-> FALSE,
                                          bitfield |-> {}]]
    /\ disk' = [f \in 1..Len(metainfo.files) |-> preallocate_file(metainfo.files[f])]
    /\ pieces_state' = [i \in 0..(NumPieces(metainfo) - 1) |-> Unstarted]
    /\ sched' = "running"
    /\ UNCHANGED <<framer_vars, aux_vars, metainfo, overflow_checks, peers, active_peers, rx, outbox, sent,
                   outstanding, nframes>>

\* peer_update_interval.tick(): "TODO: update peers"
Tick ==
    /\ Running
    /\ UNCHANGED vars

(* peer_thread *)

\* TcpStream::connect within the timeout, then the local handshake is written
SessionConnect(p) ==
    /\ Running /\ pc[p] = "connect"
    /\ \E ok \in BOOLEAN :
          IF ok
          THEN /\ pc' = [pc EXCEPT ![p] = "handshake"]
               /\ sent' = [sent EXCEPT ![p] = Append(@, Out("Handshake"))]
          ELSE /\ pc' = [pc EXCEPT ![p] = "err"]
               /\ UNCHANGED sent
    /\ UNCHANGED <<framer_vars, aux_vars, metainfo, overflow_checks, peers, active_peers, sched, futures, peer_states,
                   pieces_state, rx, outbox, disk, outstanding, nframes>>

\* What Handshake::read sees in the zeroed 4096-byte buffer after one try_read
SeenHandshake(h) ==
    [pstrlen |-> IF h.buf_len >= 1 THEN h.pstrlen ELSE 0,
     pstr |-> IF h.buf_len >= 1 + h.pstrlen THEN h.pstr ELSE "",
     info_hash |-> IF h.buf_len >= 1 + h.pstrlen + 8 + 20 THEN h.info_hash ELSE "",
     peer_id_utf8 |-> h.peer_id_utf8,
     position |-> 1 + (IF h.buf_len >= 1 THEN h.pstrlen ELSE 0) + 8 + 20 + 20]

HandshakeValid(s) ==
    ~ (s.pstrlen /= 19 \/ s.pstr /= "BitTorrent protocol" \/ s.info_hash /= "ours")

\* The handshake read: one try_read, the checks, the Unchoke and Interested
\* written, and data_buf = buf[..buf_len][position..]
HandshakeOutcome(p, h) ==
    LET s == SeenHandshake(h)
    IN IF ~ HandshakeValid(s)
       THEN /\ pc' = [pc EXCEPT ![p] = "invalid_handshake"]
            /\ UNCHANGED sent
       ELSE IF ~ s.peer_id_utf8
       THEN /\ pc' = [pc EXCEPT ![p] = "err"]
            /\ UNCHANGED sent
       ELSE /\ sent' = [sent EXCEPT ![p] = @ \o <<Out("Unchoke"), Out("Interested")>>]
            /\ pc' = [pc EXCEPT ![p] = IF s.position > h.buf_len THEN "panic" ELSE "loop"]

SessionHandshake(p) ==
    /\ Running /\ pc[p] = "handshake"
    /\ \/ /\ pc' = [pc EXCEPT ![p] = "err"]      \* try_read fails
          /\ UNCHANGED sent
       \/ \E h \in HandshakeReplies : HandshakeOutcome(p, h)
    /\ UNCHANGED <<framer_vars, aux_vars, metainfo, overflow_checks, peers, active_peers, sched, futures, peer_states,
                   pieces_state, rx, outbox, disk, outstanding, nframes>>

\* One turn of the session loop on socket-readable: the read completes one
\* frame (one of frames), read_packets parses it, and the packet is sent to
\* the scheduler
SessionReadOf(p, frames) ==
    /\ Running /\ pc[p] = "loop"
    /\ nframes < MaxFrames
    /\ nframes' = nframes + 1
    /\ \E f \in frames :
          LET r == parse_packet(f, overflow_checks)
          IN IF r.res = "ok"
             THEN /\ Len(rx) < ChannelCapacity /\ Len(rx) < MaxQueued
                  /\ rx' = Append(rx, [peer |-> p, packet |-> r.packet])
                  /\ UNCHANGED pc
             ELSE /\ pc' = [pc EXCEPT ![p] = r.res]
                  /\ UNCHANGED rx
    /\ UNCHANGED <<framer_vars, aux_vars, metainfo, overflow_checks, peers, active_peers, sched, futures, peer_states,
                   pieces_state, outbox, sent, disk, outstanding>>

SessionRead(p) == SessionReadOf(p, Frames(metainfo))

\* try_read or write_all fails (a reset connection): Err(e.into())
SessionIoError(p) ==
    /\ Running /\ pc[p] = "loop" /\ at[p] = "select"
    /\ pc' = [pc EXCEPT ![p] = "err"]
    /\ UNCHANGED <<framer_vars, aux_vars, metainfo, overflow_checks, peers, active_peers, sched, futures, peer_states,
                   pieces_state, rx, outbox, sent, disk, outstanding, nframes>>

\* A session that writes the newest message of its outbox first
SessionWriteNewest(p) ==
    /\ Running /\ pc[p] = "loop"
    /\ outbox[p] /= <<>>
    /\ sent' = [sent EXCEPT ![p] = Append(@, outbox[p][Len(outbox[p])])]
    /\ outbox' = [outbox EXCEPT ![p] = SubSeq(@, 1, Len(@) - 1)]
    /\ UNCHANGED <<framer_vars, aux_vars, metainfo, overflow_checks, peers, active_peers, sched, pc, futures, peer_states,
                   pieces_state, rx, disk, outstanding, nframes>>

\* manager_rx.recv(): one PeerOutgoingMessage is encoded and written
SessionWrite(p) ==
    /\ Running /\ pc[p] = "loop" /\ at[p] = "select"
    /\ outbox[p] /= <<>>
    /\ sent' = [sent EXCEPT ![p] = Append(@, Head(outbox[p]))]
    /\ outbox' = [outbox EXCEPT ![p] = Tail(@)]
    /\ UNCHANGED <<framer_vars, aux_vars, metainfo, overflow_checks, peers, active_peers, sched, pc, futures, peer_states,
                   pieces_state, rx, disk, outstanding, nframes>>

(* The scheduler loop of Downloader::download *)

Receiving(kinds) == Running /\ rx /= <<>> /\ Head(rx).packet.kind \in kinds

\* Where the loop is after a handler that ended res
After(res) ==
    CASE res = "err" -> "exit_err"
      [] res = "panic" -> "panic"
      [] OTHER -> "running"

\* The request a handler sent to p's outbox, and the history of it
Issue(p, r, credit) ==
    /\ outbox' = [outbox EXCEPT ![p] = IF r.res = "ok" THEN Append(@, r.msg) ELSE @]
    /\ outstanding' = (outstanding \ credit) \cup
                      (IF r.res = "ok"
                       THEN {[peer |-> p, index |-> r.msg.index, begin |-> r.msg.begin]}
                       ELSE {})

\* Packet::Choke => peer_state.choking_us = true
RecvChoke ==
    /\ Receiving({"Choke"})
    /\ peer_states' = [peer_states EXCEPT ![Head(rx).peer].choking_us = TRUE]
    /\ rx' = Tail(rx) /\ UNCHANGED nframes
    /\ UNCHANGED <<framer_vars, aux_vars, metainfo, overflow_checks, peers, active_peers, sched, pc, futures,
                   pieces_state, outbox, sent, disk, outstanding>>

\* Packet::Unchoke
RecvUnchoke ==
    /\ Receiving({"Unchoke"})
    /\ LET p == Head(rx).peer
           r == pick_and_request(metainfo, overflow_checks, Alive(p),
                                 Len(outbox[p]) < ChannelCapacity, peer_states[p], pieces_state)
       IN IF peer_states[p].choking_us
          THEN /\ r.res /= "blocked"
               /\ peer_states' = [peer_states EXCEPT ![p].choking_us = FALSE]
               /\ pieces_state' = r.ps
               /\ sched' = After(r.res)
               /\ Issue(p, r, {})
          ELSE UNCHANGED <<peer_states, pieces_state, sched, outbox, outstanding>>
    /\ rx' = Tail(rx) /\ UNCHANGED nframes
    /\ UNCHANGED <<framer_vars, aux_vars, metainfo, overflow_checks, peers, active_peers, pc, futures, sent, disk>>

\* Packet::Interested => peer_state.interested_in_us = true
RecvInterested ==
    /\ Receiving({"Interested"})
    /\ peer_states' = [peer_states EXCEPT ![Head(rx).peer].interested_in_us = TRUE]
    /\ rx' = Tail(rx) /\ UNCHANGED nframes
    /\ UNCHANGED <<framer_vars, aux_vars, metainfo, overflow_checks, peers, active_peers, sched, pc, futures,
                   pieces_state, outbox, sent, disk, outstanding>>

\* Packet::NotInterested => peer_state.choking_us = false
RecvNotInterested ==
    /\ Receiving({"NotInterested"})
    /\ peer_states' = [peer_states EXCEPT ![Head(rx).peer].choking_us = FALSE]
    /\ rx' = Tail(rx) /\ UNCHANGED nframes
    /\ UNCHANGED <<framer_vars, aux_vars, metainfo, overflow_checks, peers, active_peers, sched, pc, futures,
                   pieces_state, outbox, sent, disk, outstanding>>

\* Packet::Bitfield: peer_state.bitfield = BoolVec::from_vec(bitfield)
RecvBitfield ==
    /\ Receiving({"Bitfield"})
    /\ peer_states' = [peer_states EXCEPT ![Head(rx).peer].bitfield = Head(rx).packet.bits]
    /\ rx' = Tail(rx) /\ UNCHANGED nframes
    /\ UNCHANGED <<framer_vars, aux_vars, metainfo, overflow_checks, peers, active_peers, sched, pc, futures,
                   pieces_state, outbox, sent, disk, outstanding>>

\* Packet::KeepAlive, Have, Request, Cancel => todo!()
RecvTodo ==
    /\ Receiving({"KeepAlive", "Have", "Request", "Cancel"})
    /\ sched' = "panic"
    /\ rx' = Tail(rx) /\ UNCHANGED nframes
    /\ UNCHANGED <<framer_vars, aux_vars, metainfo, overflow_checks, peers, active_peers, pc, futures, peer_states,
                   pieces_state, outbox, sent, disk, outstanding>>

\* Packet::Piece
RecvPiece ==
    /\ Receiving({"Piece"})
    /\ \E r \in {on_piece(metainfo, overflow_checks, Alive(Head(rx).peer),
                          Len(outbox[Head(rx).peer]) < ChannelCapacity,
                          peer_states[Head(rx).peer], pieces_state, disk, Head(rx).packet)} :
       LET p == Head(rx).peer
           pk == Head(rx).packet
       IN /\ r.res /= "blocked"
          /\ pieces_state' = r.ps
          /\ disk' = r.disk
          /\ sched' = After(r.res)
          /\ Issue(p, r, {o \in outstanding :
                             o.index = pk.index /\ o.begin = RequestBegin(r.credited)})
    /\ rx' = Tail(rx) /\ UNCHANGED nframes
    /\ UNCHANGED <<framer_vars, aux_vars, metainfo, overflow_checks, peers, active_peers, pc, futures, peer_states, sent>>

\* peer_thread_futures.next() yields Some: a session has ended; it is printed
JoinSession(p) ==
    /\ Running
    /\ p \in futures /\ ~ Alive(p)
    /\ futures' = futures \ {p}
    /\ UNCHANGED <<framer_vars, aux_vars, metainfo, overflow_checks, peers, active_peers, sched, pc, peer_states,
                   pieces_state, rx, outbox, sent, disk, outstanding, nframes>>

\* peer_thread_futures.next() yields None: "All peer threads ended", break, Ok(())
AllEnded ==
    /\ Running
    /\ futures = {}
    /\ sched' = "exit_ok"
    /\ UNCHANGED <<framer_vars, aux_vars, metainfo, overflow_checks, peers, active_peers, pc, futures, peer_states,
                   pieces_state, rx, outbox, sent, disk, outstanding, nframes>>

Next ==
    \/ MainNoPeers
    \/ StartDownload
    \/ Tick
    \/ \E p \in AllPeers : SessionConnect(p)
    \/ \E p \in AllPeers : SessionHandshake(p)
    \/ \E p \in AllPeers : SessionRead(p)
    \/ \E p \in AllPeers : SessionIoError(p)
    \/ \E p \in AllPeers : SessionWrite(p)
    \/ RecvChoke
    \/ RecvUnchoke
    \/ RecvInterested
    \/ RecvNotInterested
    \/ RecvBitfield
    \/ RecvTodo
    \/ RecvPiece
    \/ \E p \in AllPeers : JoinSession(p)
    \/ AllEnded

Spec == Init /\ [][Next]_vars

\* The process's exit code: main returns Ok, returns Err, or panics
ExitCode ==
    CASE sched = "exit_ok" -> 0
      [] sched = "exit_err" -> 1
      [] sched = "panic" -> 101
      [] OTHER -> 0 - 1

----------------------------------------------------------------------------
(* One session's read side, on bytes *)

\* Bound: how many frames the remote's stream holds
MaxStream == 3

\* The well-formed frames of the streams: keep-alive, choke, unchoke, have
StreamFrames == {KeepAliveFrame, Frame(1, 0), Frame(1, 1), HaveFrame(1)}

Streams == UNION {[1..n -> StreamFrames] : n \in 1..MaxStream}

\* The session of peer 1 has shaken hands and entered its loop; the remote
\* sends the bytes of stream
FramerInit ==
    /\ metainfo = [piece_length |-> 2 * BLOCK_LENGTH, files |-> <<2 * BLOCK_LENGTH + 5>>]
    /\ overflow_checks \in BOOLEAN
    /\ peers = AllPeers
    /\ active_peers = DefaultActivePeers
    /\ sched = "running"
    /\ pc = [p \in AllPeers |-> IF p = 1 THEN "loop" ELSE "connect"]
    /\ futures = AllPeers
    /\ peer_states = [p \in AllPeers |-> [choking_us |-> TRUE, interested_in_us |-> FALSE,
                                          bitfield |-> {}]]
    /\ pieces_state = [i \in 0..(NumPieces(metainfo) - 1) |-> Unstarted]
    /\ rx = <<>>
    /\ outbox = [p \in AllPeers |-> <<>>]
    /\ sent = [p \in AllPeers |-> IF p = 1
                                  THEN <<Out("Handshake"), Out("Unchoke"), Out("Interested")>>
                                  ELSE <<>>]
    /\ disk = [f \in 1..Len(metainfo.files) |-> preallocate_file(metainfo.files[f])]
    /\ outstanding = {}
    /\ nframes = 0
    /\ stream \in Streams
    /\ nread = 0
    /\ data_buf = <<>>
    /\ AuxInit

\* One turn of the session loop: try_read returns the next n bytes,
\* data_buf.extend, read_packets, and each packet is sent to the scheduler
SessionReadBytes ==
    /\ Running /\ pc[1] = "loop"
    /\ nread < Len(StreamBytes(stream))
    /\ \E n \in 1..(Len(StreamBytes(stream)) - nread) :
          LET r == read_packets(data_buf \o SubSeq(StreamBytes(stream), nread + 1, nread + n),
                                <<>>, overflow_checks)
          IN /\ nread' = nread + n
             /\ data_buf' = r.data_buf
             /\ IF r.res = "ok"
                THEN /\ Len(rx) + Len(r.packets) <= ChannelCapacity
                     /\ rx' = rx \o [k \in 1..Len(r.packets) |-> [peer |-> 1, packet |-> r.packets[k]]]
                     /\ UNCHANGED pc
                ELSE /\ pc' = [pc EXCEPT ![1] = r.res]
                     /\ UNCHANGED rx
    /\ UNCHANGED <<stream, aux_vars, metainfo, overflow_checks, peers, active_peers, sched, futures,
                   peer_states, pieces_state, outbox, sent, disk, outstanding, nframes>>

FramerNext == SessionReadBytes

FramerSpec == FramerInit /\ [][FramerNext]_vars

----------------------------------------------------------------------------
(* The scheduler and the bit fields the peers send *)

\* Every session has shaken hands and waits in its loop; nothing is requested
BitfieldInit ==
    /\ metainfo \in Torrents
    /\ overflow_checks = FALSE
    /\ peers = AllPeers
    /\ active_peers = DefaultActivePeers
    /\ sched = "running"
    /\ pc = [p \in AllPeers |-> "loop"]
    /\ futures = AllPeers
    /\ peer_states = [p \in AllPeers |-> [choking_us |-> TRUE, interested_in_us |-> FALSE,
                                          bitfield |-> {}]]
    /\ pieces_state = [i \in 0..(NumPieces(metainfo) - 1) |-> Unstarted]
    /\ rx = <<>>
    /\ outbox = [p \in AllPeers |-> <<>>]
    /\ sent = [p \in AllPeers |-> <<Out("Handshake"), Out("Unchoke"), Out("Interested")>>]
    /\ disk = [f \in 1..Len(metainfo.files) |-> preallocate_file(metainfo.files[f])]
    /\ outstanding = {}
    /\ nframes = 0
    /\ stream = <<>>
    /\ nread = 0
    /\ data_buf = <<>>
    /\ AuxInit

\* The frames of these remotes: Bitfield, valid or not, and Unchoke
BitfieldFrames(mi) ==
    {BitfieldFrame(BitfieldBytes(mi), bits) : bits \in Bitfields(mi)}
    \cup BadBitfieldFrames(mi) \cup {Frame(1, 1)}

BitfieldNext ==
    \/ \E p \in AllPeers : SessionReadOf(p, BitfieldFrames(metainfo))
    \/ \E p \in AllPeers : SessionWrite(p)
    \/ RecvBitfield
    \/ RecvUnchoke

BitfieldSpec == BitfieldInit /\ [][BitfieldNext]_vars

----------------------------------------------------------------------------
(* The handshake read of one session *)

\* The frames the remote sends right after its handshake
HandshakeStreams == {<<>>, <<KeepAliveFrame>>, <<Frame(1, 1)>>}

\* Handshake: pstrlen, pstr, reserved, info_hash, peer_id
HandshakeLength == 1 + 19 + 8 + 20 + 20

\* The session of peer 1 has connected and written its handshake.  The
\* remote sends reply and then stream; the first try_read returns
\* reply.buf_len bytes of them
HandshakeInit ==
    /\ metainfo = [piece_length |-> 2 * BLOCK_LENGTH, files |-> <<2 * BLOCK_LENGTH + 5>>]
    /\ overflow_checks = FALSE
    /\ peers = AllPeers
    /\ active_peers = DefaultActivePeers
    /\ sched = "running"
    /\ pc = [p \in AllPeers |-> IF p = 1 THEN "handshake" ELSE "connect"]
    /\ futures = AllPeers
    /\ peer_states = [p \in AllPeers |-> [choking_us |-> TRUE, interested_in_us |-> FALSE,
                                          bitfield |-> {}]]
    /\ pieces_state = [i \in 0..(NumPieces(metainfo) - 1) |-> Unstarted]
    /\ rx = <<>>
    /\ outbox = [p \in AllPeers |-> <<>>]
    /\ sent = [p \in AllPeers |-> IF p = 1 THEN <<Out("Handshake")>> ELSE <<>>]
    /\ disk = [f \in 1..Len(metainfo.files) |-> preallocate_file(metainfo.files[f])]
    /\ outstanding = {}
    /\ nframes = 0
    /\ stream \in HandshakeStreams
    /\ nread = 0
    /\ data_buf = <<>>
    /\ LifecycleIdle
    /\ PathIdle
    /\ BencodeIdle
    /\ reply \in RepliesOf({0, 20, 50, HandshakeLength,
                             HandshakeLength + Len(StreamBytes(stream))})
    /\ script = [p \in AllPeers |-> 0]

\* The handshake read of peer 1 on reply, and
\* data_buf = buf[..buf_len][handshake_cursor.position()..]
HandshakeRead ==
    /\ Running /\ pc[1] = "handshake"
    /\ HandshakeOutcome(1, reply)
    /\ IF pc'[1] = "loop"
       THEN /\ nread' = reply.buf_len - SeenHandshake(reply).position
            /\ data_buf' = SubSeq(StreamBytes(stream), 1,
                                  reply.buf_len - SeenHandshake(reply).position)
       ELSE UNCHANGED <<nread, data_buf>>
    /\ UNCHANGED <<stream, aux_vars, metainfo, overflow_checks, peers, active_peers, sched,
                   futures, peer_states, pieces_state, rx, outbox, disk, outstanding, nframes>>

HandshakeNext == HandshakeRead

HandshakeSpec == HandshakeInit /\ [][HandshakeNext]_vars

----------------------------------------------------------------------------
(* The two bounded channels between a session and the scheduler *)

\* Bound: how many frames one read of a session holds.  A Piece frame with an
\* empty block is 13 bytes, and a read returns up to 4096 bytes.  Two channels'
\* worth of frames and two more: 2 * ChannelCapacity + 2
MaxBurst == 66

\* The blocks of a piece of the torrent downloaded here
ChannelPieceBlocks == 4 * ChannelCapacity

\* The scheduler has taken the Piece at the head of rx and waits in
\* peer_state.tx.send(..).await, the outbox of that peer being full
SchedulerBlocked ==
    /\ Receiving({"Piece"})
    /\ on_piece(metainfo, overflow_checks, Alive(Head(rx).peer),
                Len(outbox[Head(rx).peer]) < ChannelCapacity,
                peer_states[Head(rx).peer], pieces_state, disk, Head(rx).packet).res = "blocked"

\* The messages in the session -> scheduler channel: those of rx, less the one
\* the scheduler has taken and is still handling
InChannel == Len(rx) - (IF SchedulerBlocked THEN 1 ELSE 0)

\* Each peer has sent Bitfield and Unchoke and has been sent its first
\* Request: peer 1 for piece 0, peer 2 for piece 1
ChannelInit ==
    /\ metainfo = [piece_length |-> ChannelPieceBlocks * BLOCK_LENGTH,
                   files |-> <<2 * ChannelPieceBlocks * BLOCK_LENGTH + 5>>]
    /\ overflow_checks = FALSE
    /\ peers = AllPeers
    /\ active_peers = DefaultActivePeers
    /\ sched = "running"
    /\ pc = [p \in AllPeers |-> "loop"]
    /\ futures = AllPeers
    /\ peer_states = [p \in AllPeers |-> [choking_us |-> FALSE, interested_in_us |-> FALSE,
                                          bitfield |-> 0..(NumPieces(metainfo) - 1)]]
    /\ pieces_state = [i \in 0..(NumPieces(metainfo) - 1) |->
                          IF i + 1 \in AllPeers THEN Downloading(1) ELSE Unstarted]
    /\ rx = <<>>
    /\ outbox = [p \in AllPeers |-> <<>>]
    /\ sent = [p \in AllPeers |->
                 <<Out("Handshake"), Out("Unchoke"), Out("Interested"),
                   [Out("RequestBlock") EXCEPT
                       !.index = p - 1,
                       !.length = block_length(piece_len(metainfo, p - 1),
                                               num_blocks(piece_len(metainfo, p - 1)), 0)]>>]
    /\ disk = [f \in 1..Len(metainfo.files) |-> preallocate_file(metainfo.files[f])]
    /\ outstanding = {[peer |-> p, index |-> p - 1, begin |-> 0] : p \in AllPeers}
    /\ nframes = 0
    /\ stream = <<>>
    /\ nread = 0
    /\ data_buf = <<>>
    /\ AuxInit

\* stream.readable(), try_read returns the bytes of n Piece frames, and
\* read_packets parses them at the top of the loop.  The frames are for the
\* piece that p downloads, block after block from block 0, each with an
\* empty block
BurstRead(p) ==
    /\ Running /\ pc[p] = "loop" /\ at[p] = "select"
    /\ nframes = 0
    /\ \E n \in {1, MaxBurst} :
          /\ nframes' = n
          /\ buffered' = [buffered EXCEPT ![p] = n]
    /\ at' = [at EXCEPT ![p] = "top"]
    /\ UNCHANGED <<eof, saw_closed, path_vars, bencode_vars, framer_vars, remote_vars, metainfo,
                   overflow_checks, peers, active_peers, sched, pc, futures, peer_states,
                   pieces_state, rx, outbox, sent, disk, outstanding>>

\* for packet in packets { manager_tx.send(PeerPacket { packet, peer }).await? }:
\* one send, which waits while the channel is full; after the last one the
\* session goes on to its select!
ForwardPiece(p) ==
    /\ Running /\ pc[p] = "loop" /\ at[p] = "top"
    /\ buffered[p] > 0
    /\ InChannel < ChannelCapacity
    /\ rx' = Append(rx, [peer |-> p,
                         packet |-> Packet("Piece",
                                           PieceFrame(p - 1, RequestBegin(nframes - buffered[p]),
                                                      NoBlock))])
    /\ buffered' = [buffered EXCEPT ![p] = @ - 1]
    /\ at' = [at EXCEPT ![p] = IF buffered[p] = 1 THEN "select" ELSE "top"]
    /\ UNCHANGED <<eof, saw_closed, path_vars, bencode_vars, framer_vars, remote_vars, metainfo,
                   overflow_checks, peers, active_peers, sched, pc, futures, peer_states,
                   pieces_state, outbox, sent, disk, outstanding, nframes>>

ChannelNext ==
    \/ \E p \in AllPeers : BurstRead(p)
    \/ \E p \in AllPeers : ForwardPiece(p)
    \/ \E p \in AllPeers : SessionWrite(p)
    \/ RecvPiece

ChannelSpec == ChannelInit /\ [][ChannelNext]_vars

----------------------------------------------------------------------------
(* The progress of a download with one peer that serves it and one that   *)
(* stops                                                                   *)

\* The peer that stops after its Unchoke, and the peer that stays connected,
\* advertises every piece, unchokes us and answers every Request
StoppingPeer == 1

ServingPeer == 2

\* The Requests that the session of p has written to its peer
RequestsWritten(p) == SelectSeq(sent[p], LAMBDA m : m.kind = "RequestBlock")

\* Every session has shaken hands and waits in its loop; no remote has sent
\* anything
ProgressInit ==
    /\ metainfo \in {mi \in Torrents : TotalLength(mi) % mi.piece_length /= 0}
    /\ overflow_checks \in BOOLEAN
    /\ peers = AllPeers
    /\ active_peers = DefaultActivePeers
    /\ sched = "running"
    /\ pc = [p \in AllPeers |-> "loop"]
    /\ futures = AllPeers
    /\ peer_states = [p \in AllPeers |-> [choking_us |-> TRUE, interested_in_us |-> FALSE,
                                          bitfield |-> {}]]
    /\ pieces_state = [i \in 0..(NumPieces(metainfo) - 1) |-> Unstarted]
    /\ rx = <<>>
    /\ outbox = [p \in AllPeers |-> <<>>]
    /\ sent = [p \in AllPeers |-> <<Out("Handshake"), Out("Unchoke"), Out("Interested")>>]
    /\ disk = [f \in 1..Len(metainfo.files) |-> preallocate_file(metainfo.files[f])]
    /\ outstanding = {}
    /\ nframes = 0
    /\ stream = <<>>
    /\ nread = 0
    /\ data_buf = <<>>
    /\ AuxInit

\* The frame number k (from 0) of a remote that serves us: Bitfield with
\* every piece, Unchoke, then the Piece that answers the Request number k - 1
ServedFrame(p, k) ==
    IF k = 0 THEN BitfieldFrame(BitfieldBytes(metainfo), 0..(NumPieces(metainfo) - 1))
    ELSE IF k = 1 THEN Frame(1, 1)
    ELSE LET m == RequestsWritten(p)[k - 1]
         IN PieceFrame(m.index, m.begin,
                       [len |-> m.length, src |-> m.index * metainfo.piece_length + m.begin])

\* One turn of the session loop of p on socket-readable: the read brings the
\* next frame of its remote, and the packet is sent to the scheduler
RemoteServes(p) ==
    /\ Running /\ pc[p] = "loop"
    /\ p = ServingPeer \/ script[p] < 2
    /\ script[p] < 2 \/ Len(RequestsWritten(p)) >= script[p] - 1
    /\ Len(rx) < ChannelCapacity
    /\ rx' = Append(rx, [peer |-> p,
                         packet |-> parse_packet(ServedFrame(p, script[p]), overflow_checks).packet])
    /\ script' = [script EXCEPT ![p] = @ + 1]
    /\ UNCHANGED <<reply, lifecycle_vars, path_vars, bencode_vars, framer_vars, metainfo,
                   overflow_checks, peers, active_peers, sched, pc, futures, peer_states,
                   pieces_state, outbox, sent, disk, outstanding, nframes>>

\* The connection of the stopping peer fails once a piece is assigned to it
PeerStops ==
    /\ \E o \in outstanding : o.peer = StoppingPeer
    /\ SessionIoError(StoppingPeer)

ProgressNext ==
    \/ \E p \in AllPeers : RemoteServes(p)
    \/ PeerStops
    \/ \E p \in AllPeers : SessionWrite(p)
    \/ RecvBitfield
    \/ RecvUnchoke
    \/ RecvPiece
    \/ \E p \in AllPeers : JoinSession(p)

\* A turn of download's loop, and a turn of the loop of the session of p
SchedulerTurn ==
    RecvBitfield \/ RecvUnchoke \/ RecvPiece \/ \E p \in AllPeers : JoinSession(p)

SessionTurn(p) == SessionWrite(p) \/ (p = ServingPeer /\ RemoteServes(p))

\* The runtime runs every task that can run, and the serving remote goes on
ProgressFairness ==
    /\ WF_vars(SchedulerTurn)
    /\ \A p \in AllPeers : WF_vars(SessionTurn(p))

ProgressSpec == ProgressInit /\ [][ProgressNext]_vars /\ ProgressFairness

----------------------------------------------------------------------------
(* The life of the sessions: the turns of their loop, the remote closing   *)
(* the connection, the end of download and of the process                  *)

\* download has returned or panicked: rx and peer_states (the outboxes'
\* senders) are dropped
Ended == sched \in {"exit_ok", "exit_err", "panic"}

\* The task of p has returned or panicked by itself
Returned(p) == pc[p] \in {"err", "panic", "invalid_handshake"}

\* Every session has shaken hands and waits in its loop
LifecycleInit ==
    /\ metainfo = [piece_length |-> 2 * BLOCK_LENGTH, files |-> <<2 * BLOCK_LENGTH + 5>>]
    /\ overflow_checks \in BOOLEAN
    /\ peers = AllPeers
    /\ active_peers = DefaultActivePeers
    /\ sched = "running"
    /\ pc = [p \in AllPeers |-> "loop"]
    /\ futures = AllPeers
    /\ peer_states = [p \in AllPeers |-> [choking_us |-> TRUE, interested_in_us |-> FALSE,
                                          bitfield |-> {}]]
    /\ pieces_state = [i \in 0..(NumPieces(metainfo) - 1) |-> Unstarted]
    /\ rx = <<>>
    /\ outbox = [p \in AllPeers |-> <<>>]
    /\ sent = [p \in AllPeers |-> <<Out("Handshake"), Out("Unchoke"), Out("Interested")>>]
    /\ disk = [f \in 1..Len(metainfo.files) |-> preallocate_file(metainfo.files[f])]
    /\ outstanding = {}
    /\ nframes = 0
    /\ stream = <<>>
    /\ nread = 0
    /\ data_buf = <<>>
    /\ LifecycleIdle
    /\ PathIdle
    /\ BencodeIdle
    /\ RemoteIdle

\* The remote closes the connection
RemoteCloses(p) ==
    /\ pc[p] = "loop" /\ ~ eof[p]
    /\ eof' = [eof EXCEPT ![p] = TRUE]
    /\ UNCHANGED <<at, buffered, saw_closed, path_vars, bencode_vars, framer_vars, remote_vars, metainfo, overflow_checks, peers,
                   active_peers, sched, pc, futures, peer_states, pieces_state, rx, outbox,
                   sent, disk, outstanding, nframes>>

\* stream.readable(), try_read returns the bytes of a Have frame,
\* data_buf.extend, back to the top of the loop
ReadFrame(p) ==
    /\ pc[p] = "loop" /\ at[p] = "select" /\ ~ eof[p]
    /\ buffered[p] = 0
    /\ buffered' = [buffered EXCEPT ![p] = 1]
    /\ at' = [at EXCEPT ![p] = "top"]
    /\ UNCHANGED <<eof, saw_closed, path_vars, bencode_vars, framer_vars, remote_vars, metainfo, overflow_checks, peers,
                   active_peers, sched, pc, futures, peer_states, pieces_state, rx, outbox,
                   sent, disk, outstanding, nframes>>

\* stream.readable() on a connection the remote has closed: try_read returns
\* Ok(0), data_buf.extend of nothing, back to the top of the loop
ReadZero(p) ==
    /\ pc[p] = "loop" /\ at[p] = "select" /\ eof[p]
    /\ at' = [at EXCEPT ![p] = "top"]
    /\ UNCHANGED <<eof, buffered, saw_closed, path_vars, bencode_vars, framer_vars, remote_vars, metainfo, overflow_checks, peers,
                   active_peers, sched, pc, futures, peer_states, pieces_state, rx, outbox,
                   sent, disk, outstanding, nframes>>

\* manager_rx.recv() on the outbox whose sender is dropped: None, which the
\* if let Some(msg) skips, back to the top of the loop
RecvNone(p) ==
    /\ pc[p] = "loop" /\ at[p] = "select"
    /\ Ended /\ outbox[p] = <<>>
    /\ at' = [at EXCEPT ![p] = "top"]
    /\ saw_closed' = [saw_closed EXCEPT ![p] = TRUE]
    /\ UNCHANGED <<eof, buffered, path_vars, bencode_vars, framer_vars, remote_vars, metainfo, overflow_checks, peers,
                   active_peers, sched, pc, futures, peer_states, pieces_state, rx, outbox,
                   sent, disk, outstanding, nframes>>

\* The top of the loop: read_packets, and manager_tx.send(...).await? of each
\* packet; the send fails once rx is dropped
LoopTop(p) ==
    /\ pc[p] = "loop" /\ at[p] = "top"
    /\ IF buffered[p] = 0
       THEN /\ at' = [at EXCEPT ![p] = "select"]
            /\ UNCHANGED <<buffered, saw_closed, pc, rx>>
       ELSE IF Ended
       THEN /\ pc' = [pc EXCEPT ![p] = "err"]
            /\ saw_closed' = [saw_closed EXCEPT ![p] = TRUE]
            /\ buffered' = [buffered EXCEPT ![p] = 0]
            /\ UNCHANGED <<at, rx>>
       ELSE /\ Len(rx) < ChannelCapacity /\ Len(rx) < MaxQueued
            /\ rx' = Append(rx, [peer |-> p, packet |-> Packet("Have", HaveFrame(0))])
            /\ buffered' = [buffered EXCEPT ![p] = 0]
            /\ at' = [at EXCEPT ![p] = "select"]
            /\ UNCHANGED <<saw_closed, pc>>
    /\ UNCHANGED <<eof, path_vars, bencode_vars, framer_vars, remote_vars, metainfo, overflow_checks, peers,
                   active_peers, sched, futures, peer_states, pieces_state, outbox,
                   sent, disk, outstanding, nframes>>

\* main returns (or unwinds): the #[tokio::main] runtime is dropped and with
\* it every task that is still running
Teardown ==
    /\ Ended
    /\ \E p \in AllPeers : Alive(p)
    /\ pc' = [p \in AllPeers |-> IF Alive(p) THEN "cancelled" ELSE pc[p]]
    /\ UNCHANGED <<lifecycle_vars, path_vars, bencode_vars, framer_vars, remote_vars, metainfo, overflow_checks, peers,
                   active_peers, sched, futures, peer_states, pieces_state, rx, outbox,
                   sent, disk, outstanding, nframes>>

LifecycleNext ==
    \/ \E p \in AllPeers : RemoteCloses(p)
    \/ \E p \in AllPeers : ReadFrame(p)
    \/ \E p \in AllPeers : ReadZero(p)
    \/ \E p \in AllPeers : RecvNone(p)
    \/ \E p \in AllPeers : LoopTop(p)
    \/ \E p \in AllPeers : SessionIoError(p)
    \/ RecvTodo
    \/ \E p \in AllPeers : JoinSession(p)
    \/ AllEnded
    \/ Teardown

\* The runtime runs every task that can run, and main goes on to its end
LifecycleFairness ==
    /\ \A p \in AllPeers : WF_vars(ReadZero(p)) /\ WF_vars(RecvNone(p)) /\ WF_vars(LoopTop(p))
    /\ \A p \in AllPeers : WF_vars(JoinSession(p))
    /\ WF_vars(RecvTodo) /\ WF_vars(AllEnded) /\ WF_vars(Teardown)

LifecycleSpec == LifecycleInit /\ [][LifecycleNext]_vars /\ LifecycleFairness

----------------------------------------------------------------------------
(* Preallocation of a directory torrent: where its files are created *)

\* Bound: how many files the torrent has, and how many segments a path
MaxFiles == 2

MaxSegments == 2

\* A path is the sequence of its components from the root.  download_dir
\* and the directories that exist before the download
DownloadDir == <<"dl">>

InfoName == "t"

ExistingDirs == {<<>>, <<"dl">>, <<"etc">>}

\* The segments a path list may hold: a name, "..", an absolute segment
Segments ==
    {[abs |-> FALSE, name |-> "a"], [abs |-> FALSE, name |-> ".."],
     [abs |-> TRUE, name |-> "etc"]}

SegmentLists == UNION {[1..n -> Segments] : n \in 1..MaxSegments}

\* PathBuf::push / Path::join: an absolute segment replaces the path
RECURSIVE JoinPath(_, _)
JoinPath(base, segs) ==
    IF segs = <<>> THEN base
    ELSE JoinPath(IF Head(segs).abs THEN <<Head(segs).name>> ELSE Append(base, Head(segs).name),
                  Tail(segs))

\* download_dir.join(&files_info.name).join(file.path.iter().collect::<PathBuf>())
file_path(segs) == JoinPath(Append(DownloadDir, InfoName), segs)

\* The directory the components lead to as the file system walks them: ".."
\* goes up, a name must be a directory that exists; <<"?">> where it is not
RECURSIVE WalkDirs(_, _, _)
WalkDirs(dirs, cur, comps) ==
    IF comps = <<>> THEN cur
    ELSE IF Head(comps) = ".."
         THEN WalkDirs(dirs, IF cur = <<>> THEN cur ELSE SubSeq(cur, 1, Len(cur) - 1), Tail(comps))
         ELSE IF Append(cur, Head(comps)) \in dirs
              THEN WalkDirs(dirs, Append(cur, Head(comps)), Tail(comps))
              ELSE <<"?">>

\* File::create(path): the place of the file it creates, <<"?">> where it
\* fails (a directory on the way is missing, or the path is a directory)
CreateFile(dirs, path) ==
    LET dir == WalkDirs(dirs, <<>>, SubSeq(path, 1, Len(path) - 1))
        last == path[Len(path)]
    IN IF dir = <<"?">> \/ last = ".." \/ Append(dir, last) \in dirs THEN <<"?">>
       ELSE Append(dir, last)

\* download is about to preallocate the files of a directory torrent
PathInit ==
    /\ metainfo = [piece_length |-> 2 * BLOCK_LENGTH, files |-> <<2 * BLOCK_LENGTH + 5>>]
    /\ overflow_checks = FALSE
    /\ peers = AllPeers
    /\ active_peers = DefaultActivePeers
    /\ sched = "init"
    /\ pc = [p \in AllPeers |-> "idle"]
    /\ futures = {}
    /\ peer_states = <<>>
    /\ pieces_state = <<>>
    /\ rx = <<>>
    /\ outbox = [p \in AllPeers |-> <<>>]
    /\ sent = [p \in AllPeers |-> <<>>]
    /\ disk = <<>>
    /\ outstanding = {}
    /\ nframes = 0
    /\ stream = <<>>
    /\ nread = 0
    /\ data_buf = <<>>
    /\ LifecycleIdle
    /\ BencodeIdle
    /\ RemoteIdle
    /\ torrent_paths \in UNION {[1..n -> SegmentLists] : n \in 1..MaxFiles}
    /\ next_file = 1
    /\ prealloc = "running"
    /\ created = {}

\* One turn of the loop over files_info.files: preallocate_file(&file_path,
\* ..).await?, after create_dir_all(download_dir.join(&files_info.name))
PreallocateNext ==
    /\ prealloc = "running"
    /\ next_file <= Len(torrent_paths)
    /\ LET place == CreateFile(ExistingDirs \cup {Append(DownloadDir, InfoName)},
                               file_path(torrent_paths[next_file]))
       IN IF place = <<"?">>
          THEN /\ prealloc' = "err"
               /\ UNCHANGED <<created, next_file>>
          ELSE /\ created' = created \cup {place}
               /\ next_file' = next_file + 1
               /\ prealloc' = IF next_file = Len(torrent_paths) THEN "done" ELSE "running"
    /\ UNCHANGED <<torrent_paths, lifecycle_vars, bencode_vars, framer_vars, remote_vars, metainfo, overflow_checks, peers,
                   active_peers, sched, pc, futures, peer_states, pieces_state, rx, outbox,
                   sent, disk, outstanding, nframes>>

PathNext == PreallocateNext

PathSpec == PathInit /\ [][PathNext]_vars

----------------------------------------------------------------------------
(* The metainfo file: bencode and the raw bytes of the info dictionary *)

\* Bound: the piece lengths of the metainfo files read
MaxPieceLength == 2

\* A byte string is a sequence of one-character strings
DigitChars == <<"0", "1", "2", "3", "4", "5", "6", "7", "8", "9">>

IsDigit(c) == \E d \in 1..10 : DigitChars[d] = c

DigitValue(c) == (CHOOSE d \in 1..10 : DigitChars[d] = c) - 1

\* The byte at position i of b, "" past its end
At(b, i) == IF i \in 1..Len(b) THEN b[i] ELSE ""

\* A number in decimal, and the number a run of digits spells
RECURSIVE Dec(_)
Dec(n) == IF n < 10 THEN <<DigitChars[n + 1]>> ELSE Dec(n \div 10) \o <<DigitChars[(n % 10) + 1]>>

RECURSIVE DecValue(_)
DecValue(ds) ==
    IF ds = <<>> THEN 0
    ELSE 10 * DecValue(SubSeq(ds, 1, Len(ds) - 1)) + DigitValue(ds[Len(ds)])

\* The encodings of a byte string, an integer, a list and a dictionary
BStr(bytes) == Dec(Len(bytes)) \o <<":">> \o bytes

BInt(n) == <<"i">> \o Dec(n) \o <<"e">>

RECURSIVE Concat(_)
Concat(items) == IF items = <<>> THEN <<>> ELSE Head(items) \o Concat(Tail(items))

BList(values) == <<"l">> \o Concat(values) \o <<"e">>

BDict(pairs) ==
    <<"d">> \o Concat([k \in 1..Len(pairs) |-> BStr(pairs[k].key) \o pairs[k].value]) \o <<"e">>

\* The parsers give the position of the remaining input, 0 for Err.
\* digit1 and digit1_or_negative: the end of the run that starts at i
RECURSIVE digit1(_, _, _)
digit1(b, i, negative) ==
    IF IsDigit(At(b, i)) \/ (negative /\ At(b, i) = "-") THEN digit1(b, i + 1, negative) ELSE i

\* str::parse::<i64> of the run: digits, with at most a leading "-"
ParsesAsInteger(run) ==
    LET digits == IF Head(run) = "-" THEN Tail(run) ELSE run
    IN digits /= <<>> /\ \A k \in 1..Len(digits) : IsDigit(digits[k])

parse_integer(b, i) ==
    LET j == digit1(b, i + 1, TRUE)
    IN IF At(b, i) = "i" /\ j > i + 1 /\ ParsesAsInteger(SubSeq(b, i + 1, j - 1)) /\ At(b, j) = "e"
       THEN j + 1 ELSE 0

parse_bytes(b, i) ==
    LET j == digit1(b, i, FALSE)
        byte_string_len == DecValue(SubSeq(b, i, j - 1))
    IN IF j > i /\ At(b, j) = ":" /\ j + byte_string_len <= Len(b)
       THEN j + byte_string_len + 1 ELSE 0

RECURSIVE parse_bencode(_, _), many0(_, _, _)
parse_list(b, i) ==
    LET j == many0(b, i + 1, FALSE)
    IN IF At(b, i) = "l" /\ At(b, j) = "e" THEN j + 1 ELSE 0

parse_dictionary_pair(b, i) ==
    LET j == parse_bytes(b, i)
    IN IF j = 0 THEN 0 ELSE parse_bencode(b, j)

parse_dictionary(b, i) ==
    LET j == many0(b, i + 1, TRUE)
    IN IF At(b, i) = "d" /\ At(b, j) = "e" THEN j + 1 ELSE 0

\* alt((parse_integer, parse_list, parse_dictionary, parse_bytes))
parse_bencode(b, i) ==
    IF parse_integer(b, i) /= 0 THEN parse_integer(b, i)
    ELSE IF parse_list(b, i) /= 0 THEN parse_list(b, i)
    ELSE IF parse_dictionary(b, i) /= 0 THEN parse_dictionary(b, i)
    ELSE parse_bytes(b, i)

\* many0 of parse_dictionary_pair (pairs) or of parse_bencode: it stops at
\* the first position where the parser fails
many0(b, i, pairs) ==
    LET j == IF pairs THEN parse_dictionary_pair(b, i) ELSE parse_bencode(b, i)
    IN IF j = 0 THEN i ELSE many0(b, j, pairs)

\* take_until(tag): the first position where tag occurs in b, 0 for Err
take_until(tag, b) ==
    LET hits == {k \in 1..(Len(b) - Len(tag) + 1) : SubSeq(b, k, k + Len(tag) - 1) = tag}
    IN IF hits = {} THEN 0 ELSE CHOOSE k \in hits : \A h \in hits : k <= h

InfoKey == <<"i", "n", "f", "o">>

parse_info_dict_raw(input) ==
    LET found == take_until(BStr(InfoKey), input)
        remaining == found + 6
        remaining_after_info_dict == parse_dictionary(input, remaining)
    IN IF found = 0 \/ remaining_after_info_dict = 0
       THEN [res |-> "err", bytes |-> <<>>]
       ELSE [res |-> "ok", bytes |-> SubSeq(input, remaining, remaining_after_info_dict - 1)]

\* The metainfo files read: a root dictionary with announce, at most one
\* entry before info, info, and at most one entry after it
TorrentNames == {<<"a">>, <<"b">>, BStr(InfoKey)}

InfoDicts ==
    {BDict(<<[key |-> <<"l", "e", "n", "g", "t", "h">>, value |-> BInt(0)],
             [key |-> <<"n", "a", "m", "e">>, value |-> BStr(name)],
             [key |-> <<"p", "i", "e", "c", "e", " ", "l", "e", "n", "g", "t", "h">>,
              value |-> BInt(piece_length)],
             [key |-> <<"p", "i", "e", "c", "e", "s">>, value |-> BStr(<<>>)]>>) :
        name \in TorrentNames, piece_length \in 1..MaxPieceLength}

AnnounceEntry == [key |-> <<"a", "n", "n", "o", "u", "n", "c", "e">>, value |-> BStr(<<"h", "t", "t", "p", ":", "/", "/", "t">>)]

CommentKey == <<"c", "o", "m", "m", "e", "n", "t">>

EntriesBeforeInfo ==
    {<<>>,
     <<[key |-> CommentKey, value |-> BStr(<<"h", "i">>)]>>,
     <<[key |-> CommentKey, value |-> BInt(7)]>>,
     <<[key |-> CommentKey, value |-> BStr(BStr(InfoKey))]>>,
     <<[key |-> CommentKey, value |-> BStr(BStr(InfoKey) \o <<"d", "e">>)]>>,
     <<[key |-> CommentKey, value |-> BList(<<BStr(InfoKey), BDict(<<>>)>>)]>>,
     <<[key |-> CommentKey,
        value |-> BDict(<<[key |-> InfoKey, value |-> BDict(<<[key |-> <<"x">>, value |-> BInt(1)]>>)]>>)]>>}

EntriesAfterInfo == {<<>>, <<[key |-> <<"z">>, value |-> BInt(1)]>>}

MetainfoFile(before, info, after) ==
    BDict(<<AnnounceEntry>> \o before \o <<[key |-> InfoKey, value |-> info]>> \o after)

\* Metainfo::from_bytes is about to compute info_hash from the file's bytes
BencodeInit ==
    /\ metainfo = [piece_length |-> 2 * BLOCK_LENGTH, files |-> <<2 * BLOCK_LENGTH + 5>>]
    /\ overflow_checks = FALSE
    /\ peers = AllPeers
    /\ active_peers = DefaultActivePeers
    /\ sched = "init"
    /\ pc = [p \in AllPeers |-> "idle"]
    /\ futures = {}
    /\ peer_states = <<>>
    /\ pieces_state = <<>>
    /\ rx = <<>>
    /\ outbox = [p \in AllPeers |-> <<>>]
    /\ sent = [p \in AllPeers |-> <<>>]
    /\ disk = <<>>
    /\ outstanding = {}
    /\ nframes = 0
    /\ stream = <<>>
    /\ nread = 0
    /\ data_buf = <<>>
    /\ LifecycleIdle
    /\ PathIdle
    /\ RemoteIdle
    /\ \E before \in EntriesBeforeInfo, info \in InfoDicts, after \in EntriesAfterInfo :
          /\ raw = MetainfoFile(before, info, after)
          /\ info_value = info
    /\ info_hash = [res |-> "none", hash |-> Sha1(<<>>)]

\* from_bytes: parse_info_dict_raw(&bytes).map_err(..)?, then the hasher
ComputeInfoHash ==
    /\ raw /= <<>>
    /\ info_hash.res = "none"
    /\ LET info_dict_bytes == parse_info_dict_raw(raw)
       IN info_hash' = [res |-> info_dict_bytes.res, hash |-> Sha1(info_dict_bytes.bytes)]
    /\ UNCHANGED <<raw, info_value, lifecycle_vars, path_vars, framer_vars, remote_vars, metainfo,
                   overflow_checks, peers, active_peers, sched, pc, futures, peer_states,
                   pieces_state, rx, outbox, sent, disk, outstanding, nframes>>

BencodeNext == ComputeInfoHash

BencodeSpec == BencodeInit /\ [][BencodeNext]_vars

----------------------------------------------------------------------------
(* Properties *)

\* The Request messages the scheduler has issued to p: written by the
\* session, or still in the outbox
Issued(p) ==
    {m \in {(sent[p] \o outbox[p])[k] : k \in 1..Len(sent[p] \o outbox[p])} :
        m.kind = "RequestBlock"}

\* C1. Single requestor per block: for every (piece index, begin) at most one
\* peer has a Request for that block issued and not yet answered by an
\* accepted Piece; indeed no two peers are ever issued a Request for the same
\* block.
SingleRequestorPerBlock ==
    /\ \A o1 \in outstanding : \A o2 \in outstanding :
          (o1.index = o2.index /\ o1.begin = o2.begin) => o1.peer = o2.peer
    /\ \A p \in AllPeers : \A q \in AllPeers \ {p} :
          \A m \in Issued(p) : \A n \in Issued(q) :
              ~ (m.index = n.index /\ m.begin = n.begin)

\* Two peers hold unanswered requests at the same time
TwoPeersRequesting ==
    \E o1 \in outstanding : \E o2 \in outstanding : o1.peer /= o2.peer

\* What the Piece branch does with the Piece at the head of rx
HeadResult ==
    on_piece(metainfo, overflow_checks, Alive(Head(rx).peer),
             Len(outbox[Head(rx).peer]) < ChannelCapacity,
             peer_states[Head(rx).peer], pieces_state, disk, Head(rx).packet)

\* The scheduler is about to accept the Piece at the head of rx: it writes
\* the block and goes on to the next request
PieceAccepted == Receiving({"Piece"}) /\ HeadResult.credited >= 0

\* block_count of a piece: its length in blocks, the last one maybe short
BlockCount(mi, i) == (TruePieceLen(mi, i) + BLOCK_LENGTH - 1) \div BLOCK_LENGTH

\* The block being accepted is the last one of its piece
LastBlock == HeadResult.credited + 1 >= BlockCount(metainfo, Head(rx).packet.index)

\* The last message of the outbox of p is the Request for block begin of piece i
LastRequests(ob, i, begin) ==
    /\ ob /= <<>>
    /\ ob[Len(ob)].kind = "RequestBlock"
    /\ ob[Len(ob)].index = i
    /\ ob[Len(ob)].begin = begin

\* C2. When the block just accepted is the last block of its piece the
\* scheduler sets the piece Finished (and picks the next piece for the peer);
\* otherwise it issues the Request for the next block of the same piece to
\* the same peer and the piece stays Downloading.
LastBlockFinishesPiece ==
    [][(PieceAccepted /\ rx' = Tail(rx) /\ sched' = "running")
         => IF LastBlock
            THEN pieces_state'[Head(rx).packet.index].tag = "Finished"
            ELSE /\ pieces_state'[Head(rx).packet.index].tag = "Downloading"
                 /\ Len(outbox'[Head(rx).peer]) = Len(outbox[Head(rx).peer]) + 1
                 /\ LastRequests(outbox'[Head(rx).peer], Head(rx).packet.index,
                                 RequestBegin(HeadResult.credited + 1))]_vars

\* C3. When the last block of a piece is accepted the piece's bytes are
\* compared with its SHA-1: on a match the piece becomes Finished, on a
\* mismatch it is Unstarted again (or already re-requested from block 0), and
\* every Finished piece has persisted bytes that match.
PieceHashVerified ==
    [][(PieceAccepted /\ LastBlock /\ rx' = Tail(rx) /\ sched' = "running")
         => /\ PieceIntact(metainfo, disk', Head(rx).packet.index)
                 => pieces_state'[Head(rx).packet.index].tag = "Finished"
            /\ ~ PieceIntact(metainfo, disk', Head(rx).packet.index)
                 => \/ pieces_state'[Head(rx).packet.index].tag = "Unstarted"
                    \/ /\ pieces_state'[Head(rx).packet.index] = Downloading(1)
                       /\ LastRequests(outbox'[Head(rx).peer], Head(rx).packet.index, 0)
            /\ \A j \in DOMAIN pieces_state' :
                  pieces_state'[j].tag = "Finished" => PieceIntact(metainfo, disk', j)]_vars

\* C4. For every Piece the scheduler accepts, absolute offset + block length
\* <= total_length, and no file is written past its declared length.
WritesStayInBounds ==
    [][(Receiving({"Piece"}) /\ HeadResult.offset >= 0 /\ rx' = Tail(rx))
         => /\ HeadResult.offset + Head(rx).packet.block.len <= TotalLength(metainfo)
            /\ \A f \in 1..Len(metainfo.files) : RunsLen(disk'[f]) <= metainfo.files[f]]_vars

\* C5. A Piece delivered twice in a row: the second delivery leaves the bytes
\* on disk and every PieceState as the first left them, and issues no Request.
ReplayIsIdempotent ==
    (Receiving({"Piece"}) /\ HeadResult.res \in {"ok", "dropped"})
      => LET second == on_piece(metainfo, overflow_checks, Alive(Head(rx).peer), TRUE,
                                peer_states[Head(rx).peer], HeadResult.ps, HeadResult.disk,
                                Head(rx).packet)
         IN /\ second.disk = HeadResult.disk
            /\ second.ps = HeadResult.ps
            /\ second.msg = None

\* The session has read the whole stream, or has ended
ReadToEnd == pc[1] /= "loop" \/ nread = Len(StreamBytes(stream))

\* The message a well-formed frame stands for
MessageKind(f) ==
    CASE f.len = 0 -> "KeepAlive"
      [] f.id = 0 -> "Choke"
      [] f.id = 1 -> "Unchoke"
      [] f.id = 2 -> "Interested"
      [] f.id = 3 -> "NotInterested"
      [] f.id = 4 -> "Have"
      [] OTHER -> "Other"

\* C6. Framing is independent of chunking: however the stream of well-formed
\* frames is split into reads, the scheduler receives messages of complete
\* frames only, in wire order, and in the end the same sequence as when the
\* stream arrives in one read.
ChunkingIndependent ==
    /\ Len(rx) <= Len(stream)
    /\ \A k \in 1..Len(rx) : rx[k].packet.kind = MessageKind(stream[k])
    /\ ReadToEnd
         => rx = [k \in 1..Len(read_packets(StreamBytes(stream), <<>>, overflow_checks).packets) |->
                     [peer |-> 1,
                      packet |-> read_packets(StreamBytes(stream), <<>>, overflow_checks).packets[k]]]

\* Where frame k of the stream ends on the wire
FrameEnd(k) == Len(StreamBytes(SubSeq(stream, 1, k)))

\* C7. A frame with length prefix 0 is decoded as KeepAlive and yielded like
\* any other message, and the session is still alive after it.
KeepAliveYielded ==
    \A k \in 1..Len(stream) :
        (stream[k].len = 0 /\ nread >= FrameEnd(k))
          => /\ pc[1] = "loop"
             /\ Len(rx) >= k
             /\ rx[k].packet.kind = "KeepAlive"

\* C8. A remote handshake with a wrong pstrlen, pstr or info_hash ends the
\* session before Unchoke and Interested are written and before any message
\* is forwarded; when the scheduler sees the session end it removes the peer
\* from peer_states and leaves every PieceState and other PeerState as it is.
BadHandshakeRemovesPeer ==
    [][\A p \in AllPeers :
          (pc[p] = "invalid_handshake" /\ p \in futures /\ p \notin futures')
            => /\ sent[p] = <<Out("Handshake")>>
               /\ \A k \in 1..Len(rx) : rx[k].peer /= p
               /\ p \notin DOMAIN peer_states'
               /\ pieces_state' = pieces_state
               /\ \A q \in DOMAIN peer_states \ {p} :
                     q \in DOMAIN peer_states' /\ peer_states'[q] = peer_states[q]]_vars

\* The scheduler would get through the message at the head of rx if the
\* session that sent it were still there
HeadHarmless ==
    CASE Head(rx).packet.kind \in {"Choke", "Interested", "NotInterested", "Bitfield"} -> TRUE
      [] Head(rx).packet.kind = "Unchoke" ->
            peer_states[Head(rx).peer].choking_us
              => pick_and_request(metainfo, overflow_checks, TRUE, TRUE,
                                  peer_states[Head(rx).peer], pieces_state).res = "ok"
      [] Head(rx).packet.kind = "Piece" ->
            on_piece(metainfo, overflow_checks, TRUE, TRUE, peer_states[Head(rx).peer],
                     pieces_state, disk, Head(rx).packet).res \in {"ok", "dropped"}
      [] OTHER -> FALSE

\* C9. A fatal error in one session ends only that session: the scheduler
\* keeps running when it processes a message queued by a session that has
\* exited since.
SessionFailureIsolated ==
    [][(Running /\ rx /= <<>> /\ rx' = Tail(rx) /\ ~ Alive(Head(rx).peer) /\ HeadHarmless)
         => sched' = "running"]_vars

Terminated == sched \in {"exit_ok", "exit_err", "panic"}

\* Every piece of the payload is on disk
AllPiecesReceived ==
    /\ disk /= <<>>
    /\ \A i \in 0..(NumPieces(metainfo) - 1) : PieceIntact(metainfo, disk, i)

\* C10. The program ends with exit code 0 exactly when every piece has been
\* received; every fatal error, an empty peer set included, gives a non-zero
\* exit code.
OutcomeReflectsDownload ==
    Terminated => ((ExitCode = 0) <=> (peers /= {} /\ AllPiecesReceived))

\* C11. Once download has ended and its channels are closed, every session
\* that sees a channel closed (recv on its outbox gives None, or its send to
\* the scheduler fails) eventually returns instead of going on with its loop.
ClosedChannelEndsSession ==
    \A p \in AllPeers : saw_closed[p] ~> Returned(p)

\* C12. After the remote has closed the connection the session eventually
\* ends, and a download whose peers have all closed eventually leaves the
\* scheduler loop.
DisconnectEndsSession ==
    /\ \A p \in AllPeers : (eof[p] /\ pc[p] = "loop") ~> ~ Alive(p)
    /\ (\A p \in AllPeers : eof[p]) ~> ~ Running

\* C13. Request and Cancel messages from a peer are ignored: no PeerState or
\* PieceState changes, nothing is sent, nothing is written to disk, and the
\* scheduler keeps running.
RequestAndCancelIgnored ==
    [][(Receiving({"Request", "Cancel"}) /\ rx' = Tail(rx))
         => /\ peer_states' = peer_states
            /\ pieces_state' = pieces_state
            /\ outbox' = outbox
            /\ disk' = disk
            /\ sched' = "running"]_vars

\* C14. No frame a peer sends makes a task panic: a session in its loop does
\* not panic on what it reads, and the scheduler does not panic on a message
\* it takes from a session.
NoPanicOnPeerInput ==
    [][/\ \A p \in AllPeers : pc[p] = "loop" => pc'[p] /= "panic"
       /\ (Running /\ rx /= <<>> /\ rx' = Tail(rx)) => sched' /= "panic"]_vars

\* A path with an absolute segment or a ".." segment
UnsafePath(segs) == \E k \in 1..Len(segs) : segs[k].abs \/ segs[k].name = ".."

\* C15. If the path of any file of a directory torrent holds an absolute
\* segment or a ".." segment, no file is created; and no file is ever
\* created outside <download_dir>/<info.name>.
PathSegmentsSafe ==
    /\ (\E f \in 1..Len(torrent_paths) : UnsafePath(torrent_paths[f])) => created = {}
    /\ \A place \in created :
          /\ Len(place) > Len(DownloadDir) + 1
          /\ SubSeq(place, 1, Len(DownloadDir) + 1) = Append(DownloadDir, InfoName)

\* C16. For every well-formed metainfo file, also one where the bytes
\* "4:info" occur before the root dictionary's info key inside a string or
\* a nested dictionary, info_hash is computed, and it is the SHA-1 of the
\* bytes of the value of the root dictionary's info key.
InfoHashOfRootInfo ==
    info_hash.res /= "none" => info_hash = [res |-> "ok", hash |-> Sha1(info_value)]

\* The messages of s are of these kinds, in this order, as far as s goes
StartsWith(s, kinds) ==
    \A k \in 1..Len(s) : k <= Len(kinds) => s[k].kind = kinds[k]

\* C17. What a session writes is, in order, the handshake, then (only once
\* the remote handshake is validated) Unchoke and Interested, and after them
\* the messages of its outbox in the order the scheduler submitted them; no
\* Have or Request comes before Interested.
SessionWriteOrder ==
    [][\A p \in AllPeers :
          /\ StartsWith(sent'[p], <<"Handshake", "Unchoke", "Interested">>)
          /\ \A k \in 1..Len(sent'[p]) : k > 3 => sent'[p][k].kind \in {"RequestBlock", "Have"}
          /\ Len(sent'[p]) >= 2 => (Len(sent'[p]) >= 3 /\ pc'[p] \in {"loop", "err", "panic"})
          /\ (sent'[p] /= sent[p] /\ Len(sent[p]) >= 3)
               => /\ outbox[p] /= <<>>
                  /\ sent'[p] = Append(sent[p], Head(outbox[p]))
                  /\ outbox'[p] = Tail(outbox[p])
          /\ outbox'[p] /= outbox[p]
               => \/ outbox[p] /= <<>> /\ outbox'[p] = Tail(outbox[p])
                  \/ /\ Len(outbox'[p]) = Len(outbox[p]) + 1
                     /\ SubSeq(outbox'[p], 1, Len(outbox[p])) = outbox[p]]_vars

\* A session has written two Requests after its opening burst while a third
\* waits in its outbox
TwoRequestsWritten ==
    \E p \in AllPeers : Len(sent[p]) >= 5 /\ outbox[p] /= <<>>

\* The lowest piece the peer has that is unstarted or stalled, if any
EligiblePieces(p) ==
    {i \in 0..(NumPieces(metainfo) - 1) :
        i \in peer_states[p].bitfield /\ Eligible(pieces_state[i])}

\* C18. On Unchoke from a peer whose choking_us is true the scheduler clears
\* the flag and, when the peer has an eligible piece, issues exactly one
\* Request (for the piece's next block) to it; on Unchoke from a peer whose
\* choking_us is false already nothing changes and nothing is sent.
UnchokeHandling ==
    [][(Receiving({"Unchoke"}) /\ rx' = Tail(rx))
         => IF peer_states[Head(rx).peer].choking_us
            THEN /\ ~ peer_states'[Head(rx).peer].choking_us
                 /\ EligiblePieces(Head(rx).peer) /= {}
                      => /\ Len(outbox'[Head(rx).peer]) = Len(outbox[Head(rx).peer]) + 1
                         /\ \E i \in EligiblePieces(Head(rx).peer) :
                               /\ \A j \in EligiblePieces(Head(rx).peer) : i <= j
                               /\ LastRequests(outbox'[Head(rx).peer], i,
                                               RequestBegin(pieces_state[i].block_index))
            ELSE /\ peer_states' = peer_states
                 /\ pieces_state' = pieces_state
                 /\ outbox' = outbox]_vars

\* C19. Choke sets the peer's choking_us, changes no PieceState and sends
\* nothing; while choking_us is set again for a peer that has been issued
\* Requests, the scheduler issues no new Request to it unless it is handling
\* the peer's Unchoke, whatever Piece comes in.
ChokeStopsRequests ==
    [][/\ (Receiving({"Choke"}) /\ rx' = Tail(rx))
            => /\ peer_states'[Head(rx).peer].choking_us
               /\ pieces_state' = pieces_state
               /\ outbox' = outbox
       /\ \A p \in DOMAIN peer_states :
             (peer_states[p].choking_us /\ Issued(p) /= {} /\ Len(outbox'[p]) > Len(outbox[p]))
               => (Receiving({"Unchoke"}) /\ Head(rx).peer = p)]_vars

\* C20. Interested sets the peer's interested_in_us and NotInterested clears
\* it; neither changes choking_us, the bitfield or a PieceState, and neither
\* sends anything.
InterestOnlyUpdatesFlag ==
    [][(Receiving({"Interested", "NotInterested"}) /\ rx' = Tail(rx))
         => /\ peer_states'[Head(rx).peer] =
                  [peer_states[Head(rx).peer] EXCEPT
                      !.interested_in_us = (Head(rx).packet.kind = "Interested")]
            /\ \A q \in DOMAIN peer_states \ {Head(rx).peer} : peer_states'[q] = peer_states[q]
            /\ pieces_state' = pieces_state
            /\ outbox' = outbox]_vars

\* C21. Have(index) sets bit index in the bitfield of the peer that sent it
\* and nothing else: every PieceState and every other peer's state stay as
\* they are, nothing is sent, and the scheduler keeps running.
HaveSetsBit ==
    [][(Receiving({"Have"}) /\ rx' = Tail(rx))
         => /\ sched' = "running"
            /\ peer_states' = [peer_states EXCEPT ![Head(rx).peer].bitfield =
                                   @ \cup {Head(rx).packet.index}]
            /\ pieces_state' = pieces_state
            /\ outbox' = outbox]_vars

\* The Bitfield at the head of rx has the right length and no surplus bit
\* set: every bit it sets is the bit of a piece
BitfieldValid == Head(rx).packet.bits \subseteq 0..(NumPieces(metainfo) - 1)

\* C22. A Bitfield replaces the peer's bitfield only when its length is
\* ceil(pieces.len() / 8) and its surplus bits are zero; any other Bitfield
\* leaves the stored bitfield as it is.
BitfieldValidated ==
    [][(Receiving({"Bitfield"}) /\ rx' = Tail(rx))
         => peer_states'[Head(rx).peer].bitfield =
               IF BitfieldValid THEN Head(rx).packet.bits
               ELSE peer_states[Head(rx).peer].bitfield]_vars

\* The scheduler is about to run pick-and-request for the peer of the message
\* at the head of rx: on its Unchoke, or on the Piece that is the last block
\* of the piece it was downloading
PickRuns ==
    \/ Receiving({"Unchoke"}) /\ peer_states[Head(rx).peer].choking_us
    \/ /\ PieceAccepted
       /\ HeadResult.credited + 1 >= num_blocks(piece_len(metainfo, Head(rx).packet.index))

\* C23. pick-and-request(peer) takes the lowest piece the peer has that is
\* Unstarted or Stalled, changes only that PieceState (to Downloading, after
\* the Request for block 0, or block n of a Stalled piece) and issues exactly
\* one Request, for that block of that piece, to that peer; when there is no
\* such piece no PieceState changes and no Request is issued.
PickAndRequest ==
    [][(PickRuns /\ rx' = Tail(rx))
         => IF EligiblePieces(Head(rx).peer) = {}
            THEN pieces_state' = pieces_state /\ outbox' = outbox
            ELSE \E i \in EligiblePieces(Head(rx).peer) :
                    /\ \A j \in EligiblePieces(Head(rx).peer) : i <= j
                    /\ pieces_state' = [pieces_state EXCEPT
                                           ![i] = Downloading(pieces_state[i].block_index + 1)]
                    /\ Len(outbox'[Head(rx).peer]) = Len(outbox[Head(rx).peer]) + 1
                    /\ LastRequests(outbox'[Head(rx).peer], i,
                                    RequestBegin(pieces_state[i].block_index))
                    /\ \A q \in AllPeers \ {Head(rx).peer} : outbox'[q] = outbox[q]]_vars

\* The Piece at the head of rx is the block the scheduler awaits: its piece
\* is Downloading{next_block} and its begin is (next_block - 1) * BLOCK_LENGTH
Awaited ==
    /\ Head(rx).packet.index < NumPieces(metainfo)
    /\ pieces_state[Head(rx).packet.index].tag = "Downloading"
    /\ Head(rx).packet.begin =
          RequestBegin(pieces_state[Head(rx).packet.index].block_index - 1)

\* C24. A Piece whose piece is not Downloading, or whose begin is not that of
\* the block being awaited, is dropped: nothing is written to disk, no
\* PieceState changes and no Request is issued.
OnlyAwaitedBlockAccepted ==
    [][(Receiving({"Piece"}) /\ rx' = Tail(rx) /\ ~ Awaited)
         => /\ disk' = disk
            /\ pieces_state' = pieces_state
            /\ outbox' = outbox]_vars

\* The last piece of the torrent, and the Request a step has put at the end
\* of the outbox of p
LastPiece == NumPieces(metainfo) - 1

NewRequest(p) == outbox'[p][Len(outbox'[p])]

\* C25. The length of the last piece is total_length - (pieces.len() - 1) *
\* piece_length, which is piece_length when total_length is a multiple of it:
\* the Requests for the last piece lie within that length, block by block,
\* and computing them does not underflow (no panic on Unchoke or on a Piece of
\* the torrent).
LastPieceLength ==
    [][/\ \A p \in AllPeers :
             (Len(outbox'[p]) > Len(outbox[p]) /\ NewRequest(p).index = LastPiece)
               => /\ NewRequest(p).begin < TruePieceLen(metainfo, LastPiece)
                  /\ NewRequest(p).length =
                        Min(BLOCK_LENGTH, TruePieceLen(metainfo, LastPiece) - NewRequest(p).begin)
       /\ (Receiving({"Unchoke", "Piece"}) /\ rx' = Tail(rx)
           /\ Head(rx).packet.index < NumPieces(metainfo))
            => sched' /= "panic"]_vars

\* The begins of the Requests issued so far for piece i, to any peer
BeginsIssued(i) ==
    UNION {{m.begin : m \in {n \in Issued(p) : n.index = i}} : p \in AllPeers}

\* C26. The Requests issued for a piece have begin = k * BLOCK_LENGTH for
\* k = 0, 1, .. in that order, each within the piece; every Request has length
\* BLOCK_LENGTH except the final block of the piece, whose length is what is
\* left of the piece, so that begin + length <= piece_len.
RequestGeometry ==
    [][\A p \in AllPeers :
          Len(outbox'[p]) > Len(outbox[p])
            => /\ NewRequest(p).index < NumPieces(metainfo)
               /\ NewRequest(p).begin = BLOCK_LENGTH * Cardinality(BeginsIssued(NewRequest(p).index))
               /\ NewRequest(p).begin < TruePieceLen(metainfo, NewRequest(p).index)
               /\ NewRequest(p).length =
                     Min(BLOCK_LENGTH,
                         TruePieceLen(metainfo, NewRequest(p).index) - NewRequest(p).begin)]_vars

\* A block written at payload offset o as the layout of the files has it:
\* each file gets the bytes of the block that fall into its span
PlaceBlock(mi, d, o, blk) ==
    [f \in 1..Len(mi.files) |->
        LET lo == Max(o, FileStart(mi, f))
            hi == Min(o + blk.len, FileEnd(mi, f))
        IN IF lo < hi
           THEN WriteFile(d[f], lo - FileStart(mi, f), BlockSlice(blk, lo - o, hi - lo))
           ELSE d[f]]

\* C27. Writing a block at payload offset o puts byte k of the block at
\* payload offset o + k, in the file whose span holds o + k: the first span
\* gets min(span.end - o, block_len) bytes and the rest goes on at offset 0 of
\* the following spans, however many files the block covers.
BlockPlacedByOffset ==
    [][(PieceAccepted /\ rx' = Tail(rx)
        /\ HeadResult.offset + Head(rx).packet.block.len <= TotalLength(metainfo))
         => disk' = PlaceBlock(metainfo, disk, HeadResult.offset, Head(rx).packet.block)]_vars

\* The remote's handshake is valid, and the first read returns some of it
ReplyValid ==
    /\ reply.buf_len > 0
    /\ reply.pstrlen = 19
    /\ reply.pstr = "BitTorrent protocol"
    /\ reply.info_hash = "ours"
    /\ reply.peer_id_utf8

\* C28. A valid remote handshake is accepted however its 68 bytes are split
\* over reads, and the bytes that come after it in the same read are in
\* data_buf for the framer; a short first read makes the session neither
\* fail nor panic.
HandshakeReassembled ==
    (ReplyValid /\ pc[1] /= "handshake")
      => /\ pc[1] = "loop"
         /\ data_buf = SubSeq(StreamBytes(stream), 1, Max(0, reply.buf_len - HandshakeLength))

\* The session of p waits in manager_tx.send(..).await, the channel to the
\* scheduler being full
SessionBlocked(p) ==
    /\ pc[p] = "loop" /\ at[p] = "top" /\ buffered[p] > 0
    /\ InChannel >= ChannelCapacity

\* C29. No channel deadlock: in no reachable state does the scheduler wait to
\* send a RequestBlock into the full outbox of a session while that session
\* waits to send a message into the full channel to the scheduler.
NoChannelDeadlock ==
    ~ \E p \in AllPeers :
         /\ SchedulerBlocked
         /\ Head(rx).peer = p
         /\ SessionBlocked(p)

\* C30. Under fair scheduling, with a peer that stays connected, unchokes
\* us, advertises every piece and answers every Request, every piece is
\* eventually fully received, also when another peer fails or goes silent
\* after a piece was assigned to it.
DownloadProgress == <>AllPiecesReceived


\* total_length is no multiple of piece_length
NotMultiple == TotalLength(metainfo) % metainfo.piece_length /= 0

\* C31. Block-counter bounds: for a total_length that is no multiple of
\* piece_length, whenever the scheduler is about to handle an inbound message
\* every piece in state Downloading has 1 <= block_index <= the number of
\* blocks of the piece; so block_index - 1 does not underflow in the Piece
\* branch and every Request issued has its begin within the piece.
BlockCounterBounds ==
    (NotMultiple /\ Running)
      => /\ \A i \in DOMAIN pieces_state :
               pieces_state[i].tag = "Downloading"
                 => /\ 1 <= pieces_state[i].block_index
                    /\ pieces_state[i].block_index <= BlockCount(metainfo, i)
         /\ \A p \in AllPeers : \A m \in Issued(p) :
               m.begin < TruePieceLen(metainfo, m.index)

\* A Piece arrives for a piece of several blocks whose counter is at the
\* number of its blocks
CounterAtLastBlock ==
    /\ NotMultiple
    /\ Receiving({"Piece"})
    /\ Head(rx).packet.index < NumPieces(metainfo)
    /\ pieces_state[Head(rx).packet.index].tag = "Downloading"
    /\ BlockCount(metainfo, Head(rx).packet.index) > 1
    /\ pieces_state[Head(rx).packet.index].block_index = BlockCount(metainfo, Head(rx).packet.index)

=============================================================================
